---------------------------- MODULE Spec2Model ----------------------------
(***************************************************************************)
(* State-machine model of the fast pipeline of triage-vision-android:      *)
(* triage::DepthProcessor (fast_pipeline/depth_processor.{h,cpp}) and      *)
(* triage::MotionAnalyzer (fast_pipeline/motion_analyzer.{h,cpp}).         *)
(*                                                                         *)
(* Number representation.  Every C++ float is held as an integer number of *)
(* thousandths: 0.5f is 500, -1.0f is -1000, a depth of 2.5 m is 2500.     *)
(* A quotient of two floats that a threshold is compared against           *)
(* (drop_velocity_ms) is kept as an exact fraction [num, den].  Normalised *)
(* bounding-box coordinates are thousandths of the frame.  uint16_t depth  *)
(* samples and int64_t millisecond timestamps are plain integers.          *)
(***************************************************************************)
EXTENDS Integers, Sequences, FiniteSets

VARIABLES
    \* ---- DepthProcessor fields (depth_processor.h:159-191)
    initialized_,        \* bool initialized_
    width_,              \* int width_
    height_,             \* int height_
    depth_map_,          \* std::vector<uint16_t> depth_map_, row-major
    principal_x_,        \* float principal_x_ (thousandths of a pixel)
    principal_y_,        \* float principal_y_
    position_history_,   \* std::deque<PositionSample>
    last_position_,      \* Position3D last_position_
    last_distance_,      \* float last_distance_
    bed_center_,         \* Position3D bed_center_
    bed_radius_,         \* float bed_radius_
    now,                 \* reading of std::chrono::steady_clock, in ms
    \* ---- MotionAnalyzer fields (motion_analyzer.h:59-74)
    stillness_threshold_,   \* float stillness_threshold_
    history_frames_,        \* int history_frames_
    prev_frame_,            \* std::vector<uint8_t> prev_frame_ (RGBA pixels)
    prev_width_,            \* int prev_width_
    prev_height_,           \* int prev_height_
    motion_history_,        \* std::deque<float> motion_history_
    current_motion_level_,  \* float current_motion_level_
    last_motion_time_,      \* int64_t last_motion_time_
    stillness_start_time_,  \* int64_t stillness_start_time_
    sys_now,                \* reading of std::chrono::system_clock, in ms
    \* ---- PoseEstimator fields (pose_estimator.h:58-66)
    current_pose_,          \* Pose current_pose_
    previous_pose_,         \* Pose previous_pose_
    pose_confidence_,       \* float pose_confidence_
    pose_start_time_,       \* int64_t pose_start_time_
    last_pose_change_time_, \* int64_t last_pose_change_time_
    pose_history_,          \* std::deque<PoseHistory> pose_history_
    \* ---- the bridge call in progress (native_bridge.cpp:204-345)
    tick,                   \* detectMotionWithDepth: its position and arguments
    \* ---- the global instances of the bridge (native_bridge.cpp:35-46)
    g_instances,            \* for each std::unique_ptr, whether it holds an
                            \* object
    \* ---- observation of the last call
    ret,                 \* the last call: its name, arguments and return value
    fed,                 \* history variable: the valid samples fed since reset()
    motion_pushed_at,    \* history variable: sys_now at which each entry of
                         \* motion_history_ was pushed
    no_person_run        \* history variable: the update() calls without a
                         \* person since the last one with a person

depthVars == <<initialized_, width_, height_, depth_map_, principal_x_,
               principal_y_, position_history_, last_position_,
               last_distance_, bed_center_, bed_radius_, now, fed>>

motionVars == <<stillness_threshold_, history_frames_, prev_frame_,
                prev_width_, prev_height_, motion_history_,
                current_motion_level_, last_motion_time_,
                stillness_start_time_, sys_now, motion_pushed_at>>

poseVars == <<current_pose_, previous_pose_, pose_confidence_,
              pose_start_time_, last_pose_change_time_, pose_history_,
              no_person_run>>

vars == <<depthVars, motionVars, poseVars, tick, g_instances, ret>>

(***************************************************************************)
(* Program constants.                                                      *)
(***************************************************************************)
MAX_HISTORY_SIZE == 30
fall_drop_threshold_ == 500
fall_time_window_ms_ == 1000
focal_length_x_ == 500
focal_length_y_ == 500
INVALID_DEPTH_MAX == 65535
NO_DEPTH == -1000
roi_size == 5

\* fall_velocity_threshold_ = 1.5f as the exact fraction 3/2
fall_velocity_threshold_ == [num |-> 3, den |-> 2]

(***************************************************************************)
(* Arithmetic helpers.                                                     *)
(***************************************************************************)
Abs(a) == IF a < 0 THEN -a ELSE a
Min(a, b) == IF a < b THEN a ELSE b
Max(a, b) == IF a > b THEN a ELSE b

\* static_cast<int>(a / b) for b > 0: truncation toward zero
TruncDiv(a, b) == IF a >= 0 THEN a \div b ELSE -((-a) \div b)

\* the float quotient a / b for b > 0, rounded to the nearest thousandth
FloatDiv(a, b) == IF a >= 0 THEN (2 * a + b) \div (2 * b)
                  ELSE -((2 * (-a) + b) \div (2 * b))

\* p > q for fractions with positive denominators
FracGreater(p, q) == p.num * q.den > q.num * p.den

RECURSIVE SqrtSearch(_, _, _)
SqrtSearch(n, lo, hi) ==
    IF lo >= hi THEN lo
    ELSE LET mid == (lo + hi + 1) \div 2 IN
         IF mid * mid <= n THEN SqrtSearch(n, mid, hi)
         ELSE SqrtSearch(n, lo, mid - 1)

\* std::sqrt of a non-negative integer below 2^31, rounded down
ISqrt(n) == SqrtSearch(n, 0, Min(n, 46340))

RECURSIVE SumOver(_, _)
SumOver(S, f) ==
    IF S = {} THEN 0
    ELSE LET p == CHOOSE q \in S : TRUE IN f[p] + SumOver(S \ {p}, f)

ZeroPosition == [x |-> 0, y |-> 0, z |-> 0]

(***************************************************************************)
(* DepthProcessor: const queries.                                          *)
(***************************************************************************)
\* a mutant of getDepthAt: a raw sample of 0 is converted like a reading
getDepthAt_NoZeroCheck(x, y) ==
    IF ~initialized_ \/ x < 0 \/ x >= width_ \/ y < 0 \/ y >= height_
    THEN NO_DEPTH
    ELSE LET raw_depth == depth_map_[y * width_ + x + 1] IN
         IF raw_depth = INVALID_DEPTH_MAX THEN NO_DEPTH
         ELSE (raw_depth * 1000) \div 1000

\* float getDepthAt(int x, int y) const
getDepthAt(x, y) ==
    IF ~initialized_ \/ x < 0 \/ x >= width_ \/ y < 0 \/ y >= height_
    THEN NO_DEPTH
    ELSE LET raw_depth == depth_map_[y * width_ + x + 1] IN
         IF raw_depth = 0 \/ raw_depth = INVALID_DEPTH_MAX THEN NO_DEPTH
         \* raw_depth / 1000.0f metres, held in thousandths of a metre
         ELSE (raw_depth * 1000) \div 1000

\* bool hasDepthData() const
hasDepthData == initialized_ /\ depth_map_ # <<>>

\* the pixels of the inclusive rectangle whose depth is valid (depth > 0)
ValidPixels(x1, y1, x2, y2) ==
    {p \in (x1..x2) \X (y1..y2) : getDepthAt(p[1], p[2]) > 0}

\* the valid depths collected from the pixels P, by pixel
DepthsOf(P) == [p \in P |-> getDepthAt(p[1], p[2])]

\* a mutant of NthElement: the smallest reading, whatever mid is
NthElement_First(depths, mid) ==
    CHOOSE d \in {depths[p] : p \in DOMAIN depths} :
        \A p \in DOMAIN depths : d <= depths[p]

\* v[mid] after std::nth_element(v.begin(), v.begin() + mid, v.end()): the
\* element of rank mid (from 0) of the collected depths in non-decreasing
\* order
NthElement(depths, mid) ==
    CHOOSE d \in {depths[p] : p \in DOMAIN depths} :
        /\ Cardinality({p \in DOMAIN depths : depths[p] < d}) <= mid
        /\ Cardinality({p \in DOMAIN depths : depths[p] <= d}) > mid

\* the tail of medianDepthInRegion, on the depths it collected
MedianOf(depths) ==
    IF DOMAIN depths = {} THEN NO_DEPTH
    ELSE NthElement(depths, Cardinality(DOMAIN depths) \div 2)

\* float medianDepthInRegion(int x1, int y1, int x2, int y2) const
medianDepthInRegion(x1, y1, x2, y2) ==
    MedianOf(DepthsOf(ValidPixels(Max(0, x1), Max(0, y1),
                                  Min(width_ - 1, x2), Min(height_ - 1, y2))))

ZeroStats == [min_meters |-> 0, max_meters |-> 0, mean_meters |-> 0,
              median_meters |-> 0, valid_pixels |-> 0, total_pixels |-> 0]

\* the statistics of calculateStats, on the depths it collected from a
\* rectangle of total_pixels pixels
StatsOf(valid_depths, readings, total_pixels) ==
    IF DOMAIN valid_depths = {}
    THEN [ZeroStats EXCEPT !.total_pixels = total_pixels]
    ELSE [min_meters |-> CHOOSE d \in readings : \A e \in readings : d <= e,
          max_meters |-> CHOOSE d \in readings : \A e \in readings : d >= e,
          mean_meters |-> FloatDiv(SumOver(DOMAIN valid_depths, valid_depths),
                                   Cardinality(DOMAIN valid_depths)),
          median_meters |-> NthElement(valid_depths,
                                Cardinality(DOMAIN valid_depths) \div 2),
          valid_pixels |-> Cardinality(DOMAIN valid_depths),
          total_pixels |-> total_pixels]

\* the loop of calculateStats over the clamped inclusive pixel rectangle
StatsIn(x1, y1, x2, y2, valid_depths) ==
    StatsOf(valid_depths, {valid_depths[p] : p \in DOMAIN valid_depths},
            (x2 - x1 + 1) * (y2 - y1 + 1))

\* DepthStats calculateStats(const BoundingBox& bbox) const
calculateStats(bbox) ==
    IF ~initialized_ \/ depth_map_ = <<>> THEN ZeroStats
    ELSE
    LET x1 == Max(0, Min(TruncDiv(bbox.x * width_, 1000), width_ - 1))
        y1 == Max(0, Min(TruncDiv(bbox.y * height_, 1000), height_ - 1))
        x2 == Max(0, Min(TruncDiv((bbox.x + bbox.width) * width_, 1000),
                         width_ - 1))
        y2 == Max(0, Min(TruncDiv((bbox.y + bbox.height) * height_, 1000),
                         height_ - 1))
    IN StatsIn(x1, y1, x2, y2, DepthsOf(ValidPixels(x1, y1, x2, y2)))

\* a mutant of PinholePosition: the principal point is taken to be (0, 0)
PinholePosition_NoPrincipal(depth_cx, depth_cy, depth) ==
    IF depth <= 0 THEN [x |-> 0, y |-> 0, z |-> 0]
    ELSE [x |-> FloatDiv(depth_cx * 1000 * depth, focal_length_x_ * 1000),
          y |-> FloatDiv(depth_cy * 1000 * depth, focal_length_y_ * 1000),
          z |-> depth]

\* the pinhole conversion of estimate3DPosition, from the depth it sampled
PinholePosition(depth_cx, depth_cy, depth) ==
    IF depth <= 0 THEN ZeroPosition
    ELSE [x |-> FloatDiv((depth_cx * 1000 - principal_x_) * depth,
                         focal_length_x_ * 1000),
          y |-> FloatDiv((depth_cy * 1000 - principal_y_) * depth,
                         focal_length_y_ * 1000),
          z |-> depth]

\* a mutant of OrBoxMedian: no fallback to the bounding box
OrBoxMedian_NoFallback(person_bbox, depth) == depth

\* if (depth <= 0) depth = calculateStats(person_bbox).median_meters;
OrBoxMedian(person_bbox, depth) ==
    IF depth <= 0 THEN calculateStats(person_bbox).median_meters ELSE depth

\* Position3D estimate3DPosition(person_bbox, rgb_width, rgb_height) const
estimate3DPosition(person_bbox, rgb_width, rgb_height) ==
    IF ~initialized_ \/ depth_map_ = <<>> THEN ZeroPosition
    ELSE
    LET \* rgb_cx * scale_x = (bbox.x + bbox.width / 2) * rgb_width
        \*                    * (width_ / rgb_width), truncated
        depth_cx == TruncDiv((2 * person_bbox.x + person_bbox.width)
                                 * rgb_width * width_,
                             2000 * rgb_width)
        depth_cy == TruncDiv((2 * person_bbox.y + person_bbox.height)
                                 * rgb_height * height_,
                             2000 * rgb_height)
    IN PinholePosition(depth_cx, depth_cy,
           OrBoxMedian(person_bbox,
               medianDepthInRegion(depth_cx - roi_size, depth_cy - roi_size,
                                   depth_cx + roi_size, depth_cy + roi_size)))

(***************************************************************************)
(* DepthProcessor: the position window.                                    *)
(***************************************************************************)
\* a mutant of DropOld: no entry is ever aged out
DropOld_Never(h, t) == h

RECURSIVE DropOld(_, _)
\* while (!empty() && (now - front().timestamp_ms) > fall_time_window_ms_)
\*     pop_front();
DropOld(h, t) ==
    IF h # <<>> /\ (t - Head(h).timestamp_ms) > fall_time_window_ms_
    THEN DropOld(Tail(h), t)
    ELSE h

RECURSIVE LimitSize(_)
\* while (size() > MAX_HISTORY_SIZE) pop_front();
LimitSize(h) ==
    IF Len(h) > MAX_HISTORY_SIZE THEN LimitSize(Tail(h)) ELSE h

\* a mutant of updatePositionHistory: the size limit is missing
updatePositionHistory_NoLimit(h, pos, t) ==
    DropOld(Append(h, [position |-> pos, timestamp_ms |-> t]), t)

\* void updatePositionHistory(const Position3D& pos): the new deque
updatePositionHistory(h, pos, t) ==
    LimitSize(DropOld(Append(h, [position |-> pos, timestamp_ms |-> t]), t))

\* a mutant of calculateVerticalDrop: the drop is also measured from the
\* last position stored, whether or not the window still holds it
calculateVerticalDrop_FromLast(h) ==
    IF h = <<>> THEN 0
    ELSE LET ys == {h[i].position.y : i \in 1..Len(h)}
                     \cup (IF last_position_.z > 0 THEN {last_position_.y}
                           ELSE {})
             max_y == CHOOSE m \in ys : \A y \in ys : m <= y
         IN h[Len(h)].position.y - max_y

\* float calculateVerticalDrop() const, on deque h
calculateVerticalDrop(h) ==
    IF Len(h) < 2 THEN 0
    ELSE LET max_y == CHOOSE m \in {h[i].position.y : i \in 1..Len(h)} :
                          \A i \in 1..Len(h) : m <= h[i].position.y
             current_y == h[Len(h)].position.y
         IN current_y - max_y

ZeroFraction == [num |-> 0, den |-> 1]

\* a mutant of calculateDropVelocity: the drop is divided by the length of
\* the window, not by the time between its oldest and newest entries
calculateDropVelocity_WindowLength(h) ==
    IF Len(h) < 2 THEN ZeroFraction
    ELSE [num |-> h[Len(h)].position.y - h[1].position.y,
          den |-> fall_time_window_ms_]

\* float calculateDropVelocity() const, on deque h: y_delta / time_seconds
\* in m/s, as the fraction y_delta[mm] / time_delta_ms
calculateDropVelocity(h) ==
    IF Len(h) < 2 THEN ZeroFraction
    ELSE LET first == h[1]
             last == h[Len(h)]
             time_delta_ms == last.timestamp_ms - first.timestamp_ms
         IN IF time_delta_ms <= 0 THEN ZeroFraction
            ELSE [num |-> last.position.y - first.position.y,
                  den |-> time_delta_ms]

(***************************************************************************)
(* The observation of a call.                                              *)
(***************************************************************************)
ZeroFall == [fall_detected |-> FALSE, vertical_drop_meters |-> 0,
             drop_velocity_ms |-> ZeroFraction, current_height_meters |-> 0,
             confidence |-> 0]

ZeroMotion == [distance_meters |-> 0, position_3d |-> ZeroPosition,
               depth_motion_level |-> 0, in_bed_zone |-> FALSE,
               bed_proximity_meters |-> 0]

NoArg == <<>>

\* what a call leaves behind: op, its argument, the position it estimated,
\* whether it appended to the position window, and its return value
Ret(op, arg, pos, pushed, value) ==
    [op |-> op, arg |-> arg, pos |-> pos, pushed |-> pushed, value |-> value]

NoFed == [n |-> 0, first_y |-> 0, first_ts |-> 0, increasing |-> TRUE,
          evicted |-> FALSE]

\* history variable: the run of valid samples fed since the window was last
\* emptied by reset(): how many (0, 1, or 2 for "two or more"), the first
\* one, whether y has been strictly increasing throughout, and whether any
\* of them has been evicted from the window
FedAfter(pos, t, before, after) ==
    IF fed.n = 0
    THEN [n |-> 1, first_y |-> pos.y, first_ts |-> t, increasing |-> TRUE,
          evicted |-> FALSE]
    ELSE [fed EXCEPT !.n = 2,
                     !.increasing = fed.increasing
                        /\ before[Len(before)].position.y < pos.y,
                     !.evicted = fed.evicted \/ Len(after) < Len(before) + 1]

(***************************************************************************)
(* DepthProcessor: the operations.  Each lower-case operator computes what *)
(* the method of that name does to the fields it writes; the capitalised   *)
(* action of the same name is the call.                                    *)
(***************************************************************************)
\* a mutant of updateDepthMap: the dimension check is missing, the frame is
\* copied whatever its size
updateDepthMap_NoSizeCheck(depth_data, width, height) ==
    [initialized |-> TRUE,
     width |-> IF initialized_ THEN width_ ELSE width,
     height |-> IF initialized_ THEN height_ ELSE height,
     principal_x |-> IF initialized_ THEN principal_x_
                     ELSE FloatDiv(width * 1000, 2),
     principal_y |-> IF initialized_ THEN principal_y_
                     ELSE FloatDiv(height * 1000, 2),
     depth_map |-> depth_data]

\* void init(int width, int height) followed by the rest of
\* void updateDepthMap(const uint16_t* depth_data, int width, int height)
updateDepthMap(depth_data, width, height) ==
    LET \* if (!initialized_) init(width, height);
        w == IF initialized_ THEN width_ ELSE width
        h == IF initialized_ THEN height_ ELSE height
        px == IF initialized_ THEN principal_x_ ELSE FloatDiv(width * 1000, 2)
        py == IF initialized_ THEN principal_y_ ELSE FloatDiv(height * 1000, 2)
        resized == IF initialized_ THEN depth_map_
                   ELSE [i \in 1..(width * height) |-> 0]
    IN [initialized |-> TRUE, width |-> w, height |-> h,
        principal_x |-> px, principal_y |-> py,
        depth_map |-> IF width # w \/ height # h THEN resized
                      ELSE depth_data]

UpdateDepthMap(frame) ==
    \E post \in {updateDepthMap(frame.data, frame.width, frame.height)} :
    /\ initialized_' = post.initialized
    /\ width_' = post.width
    /\ height_' = post.height
    /\ principal_x_' = post.principal_x
    /\ principal_y_' = post.principal_y
    /\ depth_map_' = post.depth_map
    /\ ret' = Ret("updateDepthMap", frame, ZeroPosition, FALSE, NoArg)
    /\ UNCHANGED <<position_history_, last_position_, last_distance_,
                   bed_center_, bed_radius_, now, fed>>
    /\ UNCHANGED motionVars
    /\ UNCHANGED <<poseVars, tick, g_instances>>

\* a mutant of NoValidDepth: z == 0 passes as a measurement
NoValidDepth_ZeroPasses(pos) == pos.z < 0

\* if (current_pos.z <= 0) return result;  // No valid depth
NoValidDepth(pos) == pos.z <= 0

\* a mutant of FallDecision: either signal alone reports a fall
FallDecision_Or(vertical_drop, drop_velocity) ==
    LET rapid_drop == vertical_drop > fall_drop_threshold_
        high_velocity == FracGreater(drop_velocity, fall_velocity_threshold_)
    IN IF rapid_drop \/ high_velocity
       THEN [fall_detected |-> TRUE, confidence |-> 900]
       ELSE [fall_detected |-> FALSE, confidence |-> 0]

\* a mutant of FallDecision: a fall reported by the call before stays
\* reported
FallDecision_Latched(vertical_drop, drop_velocity) ==
    LET rapid_drop == vertical_drop > fall_drop_threshold_
        high_velocity == FracGreater(drop_velocity, fall_velocity_threshold_)
    IN IF \/ rapid_drop /\ high_velocity
          \/ ret.op = "detectFall" /\ ret.value.fall_detected
       THEN [fall_detected |-> TRUE, confidence |-> 900]
       ELSE IF rapid_drop
       THEN [fall_detected |-> FALSE, confidence |-> 300]
       ELSE [fall_detected |-> FALSE, confidence |-> 0]

\* the fall detection logic of detectFall
FallDecision(vertical_drop, drop_velocity) ==
    LET rapid_drop == vertical_drop > fall_drop_threshold_
        high_velocity == FracGreater(drop_velocity, fall_velocity_threshold_)
    IN IF rapid_drop /\ high_velocity
       THEN [fall_detected |-> TRUE, confidence |-> 900]
       ELSE IF rapid_drop
       THEN [fall_detected |-> FALSE, confidence |-> 300]
       ELSE [fall_detected |-> FALSE, confidence |-> 0]

\* a mutant of FallResultIn: detectFall leaves the last position and the
\* last distance to analyzeMotion
FallResultIn_KeepsLast(pos, h, drop, velocity, decision) ==
    [history |-> h,
     last_position |-> last_position_,
     last_distance |-> last_distance_,
     pushed |-> TRUE,
     pos |-> pos,
     result |-> [fall_detected |-> decision.fall_detected,
                 vertical_drop_meters |-> drop,
                 drop_velocity_ms |-> velocity,
                 current_height_meters |-> -pos.y,
                 confidence |-> decision.confidence]]

\* detectFall from "Update position history" on: h is the window after
\* updatePositionHistory(current_pos)
FallResultIn(current_pos, h, vertical_drop, drop_velocity, decision) ==
    [history |-> h,
     last_position |-> current_pos,
     last_distance |-> current_pos.z,
     pushed |-> TRUE,
     pos |-> current_pos,
     result |-> [fall_detected |-> decision.fall_detected,
                 vertical_drop_meters |-> vertical_drop,
                 drop_velocity_ms |-> drop_velocity,
                 current_height_meters |-> -current_pos.y,
                 confidence |-> decision.confidence]]

FallMetricsIn(current_pos, h, vertical_drop, drop_velocity) ==
    FallResultIn(current_pos, h, vertical_drop, drop_velocity,
                 FallDecision(vertical_drop, drop_velocity))

\* a mutant of detectFallAt: an unmeasured position is still recorded as the
\* last position, as analyzeMotion does
detectFallAt_RecordsLast(current_pos, h) ==
    IF NoValidDepth(current_pos)
    THEN [history |-> position_history_,
          last_position |-> current_pos,
          last_distance |-> current_pos.z,
          pushed |-> FALSE, pos |-> current_pos, result |-> ZeroFall]
    ELSE FallMetricsIn(current_pos, h, calculateVerticalDrop(h),
                       calculateDropVelocity(h))

\* detectFall once the 3D position is estimated
detectFallAt(current_pos, h) ==
    IF NoValidDepth(current_pos)
    THEN [history |-> position_history_,
          last_position |-> last_position_,
          last_distance |-> last_distance_,
          pushed |-> FALSE, pos |-> current_pos, result |-> ZeroFall]
    ELSE FallMetricsIn(current_pos, h, calculateVerticalDrop(h),
                       calculateDropVelocity(h))

detectFallWith(current_pos) ==
    detectFallAt(current_pos,
                 updatePositionHistory(position_history_, current_pos, now))

\* DepthFallResult detectFall(person_bbox, rgb_width, rgb_height)
detectFall(person_bbox, rgb_width, rgb_height) ==
    IF ~initialized_ \/ depth_map_ = <<>>
    THEN [history |-> position_history_,
          last_position |-> last_position_,
          last_distance |-> last_distance_,
          pushed |-> FALSE, pos |-> ZeroPosition, result |-> ZeroFall]
    ELSE detectFallWith(estimate3DPosition(person_bbox, rgb_width,
                                           rgb_height))

DetectFall(person_bbox, rgb_width, rgb_height) ==
    \E post \in {detectFall(person_bbox, rgb_width, rgb_height)} :
    /\ position_history_' = post.history
    /\ last_position_' = post.last_position
    /\ last_distance_' = post.last_distance
    /\ fed' = IF post.pushed
              THEN FedAfter(post.pos, now, position_history_, post.history)
              ELSE fed
    /\ ret' = Ret("detectFall", person_bbox, post.pos, post.pushed,
                  post.result)
    /\ UNCHANGED <<initialized_, width_, height_, depth_map_, principal_x_,
                   principal_y_, bed_center_, bed_radius_, now>>
    /\ UNCHANGED motionVars
    /\ UNCHANGED <<poseVars, tick, g_instances>>

\* analyzeMotion once the 3D position is estimated
analyzeMotionAt(current_pos) ==
    LET z_change == Abs(current_pos.z - last_position_.z)
        dx == current_pos.x - bed_center_.x
        dy == current_pos.y - bed_center_.y
        dz == current_pos.z - bed_center_.z
    IN [last_position |-> current_pos,
        last_distance |-> current_pos.z,
        pos |-> current_pos,
        result |-> [distance_meters |-> current_pos.z,
                    position_3d |-> current_pos,
                    depth_motion_level |->
                        IF last_position_.z > 0 /\ current_pos.z > 0
                        THEN Min(1000, z_change * 10)
                        ELSE 0,
                    \* std::sqrt(dx*dx + dy*dy + dz*dz), rounded down to a
                    \* thousandth; the comparison is made on the squares
                    bed_proximity_meters |->
                        ISqrt(dx * dx + dy * dy + dz * dz),
                    in_bed_zone |->
                        /\ bed_radius_ >= 0
                        /\ dx * dx + dy * dy + dz * dz
                               <= bed_radius_ * bed_radius_]]

\* DepthMotionResult analyzeMotion(person_bbox, rgb_width, rgb_height)
analyzeMotion(person_bbox, rgb_width, rgb_height) ==
    IF ~initialized_ \/ depth_map_ = <<>>
    THEN [last_position |-> last_position_, last_distance |-> last_distance_,
          pos |-> ZeroPosition, result |-> ZeroMotion]
    ELSE analyzeMotionAt(estimate3DPosition(person_bbox, rgb_width,
                                            rgb_height))

AnalyzeMotion(person_bbox, rgb_width, rgb_height) ==
    \E post \in {analyzeMotion(person_bbox, rgb_width, rgb_height)} :
    /\ last_position_' = post.last_position
    /\ last_distance_' = post.last_distance
    /\ ret' = Ret("analyzeMotion", person_bbox, post.pos, FALSE, post.result)
    /\ UNCHANGED <<initialized_, width_, height_, depth_map_, principal_x_,
                   principal_y_, position_history_, bed_center_, bed_radius_,
                   now, fed>>
    /\ UNCHANGED motionVars
    /\ UNCHANGED <<poseVars, tick, g_instances>>

\* void setBedRegion(const Position3D& center, float radius_meters)
SetBedRegion(center, radius_meters) ==
    /\ bed_center_' = center
    /\ bed_radius_' = radius_meters
    /\ ret' = Ret("setBedRegion", [center |-> center,
                                   radius |-> radius_meters],
                  ZeroPosition, FALSE, NoArg)
    /\ UNCHANGED <<initialized_, width_, height_, depth_map_, principal_x_,
                   principal_y_, position_history_, last_position_,
                   last_distance_, now, fed>>
    /\ UNCHANGED motionVars
    /\ UNCHANGED <<poseVars, tick, g_instances>>

\* void DepthProcessor::reset()
\* a mutant of Reset: the depth frame is dropped with the history
Reset_DropsFrame ==
    /\ position_history_' = <<>>
    /\ last_position_' = ZeroPosition
    /\ last_distance_' = 0
    /\ fed' = NoFed
    /\ initialized_' = FALSE
    /\ depth_map_' = <<>>
    /\ ret' = Ret("reset", ret.op, ZeroPosition, FALSE, NoArg)
    /\ UNCHANGED <<width_, height_, principal_x_, principal_y_, bed_center_,
                   bed_radius_, now>>
    /\ UNCHANGED motionVars
    /\ UNCHANGED <<poseVars, tick, g_instances>>

Reset ==
    /\ position_history_' = <<>>
    /\ last_position_' = ZeroPosition
    /\ last_distance_' = 0
    /\ fed' = NoFed
    \* history: ret.arg names the call that came before this reset
    /\ ret' = Ret("reset", ret.op, ZeroPosition, FALSE, NoArg)
    /\ UNCHANGED <<initialized_, width_, height_, depth_map_, principal_x_,
                   principal_y_, bed_center_, bed_radius_, now>>
    /\ UNCHANGED motionVars
    /\ UNCHANGED <<poseVars, tick, g_instances>>

\* a call of float getDepthAt(int x, int y) const
GetDepthAt(x, y) ==
    /\ ret' = Ret("getDepthAt", <<x, y>>, ZeroPosition, FALSE,
                  getDepthAt(x, y))
    /\ UNCHANGED depthVars
    /\ UNCHANGED motionVars
    /\ UNCHANGED <<poseVars, tick, g_instances>>

\* DepthStats calculateStats(const BoundingBox& bbox) const, called
CalculateStats(bbox) ==
    /\ ret' = Ret("calculateStats", bbox, ZeroPosition, FALSE,
                  calculateStats(bbox))
    /\ UNCHANGED depthVars
    /\ UNCHANGED motionVars
    /\ UNCHANGED <<poseVars, tick, g_instances>>

\* std::chrono::steady_clock advances by dt ms between two calls
Elapse(dt, limit) ==
    /\ now + dt <= limit
    /\ now' = now + dt
    /\ UNCHANGED <<initialized_, width_, height_, depth_map_, principal_x_,
                   principal_y_, position_history_, last_position_,
                   last_distance_, bed_center_, bed_radius_, fed>>
    /\ UNCHANGED motionVars
    /\ UNCHANGED <<poseVars, tick, g_instances>>
    /\ UNCHANGED ret

(***************************************************************************)
(* MotionAnalyzer.                                                         *)
(***************************************************************************)
\* the sampled coordinates: for (v = 0; v < size; v += step), step = 4
Sampled(size) == {v \in 0..(size - 1) : v % 4 = 0}

\* 0.299f * p[idx] + 0.587f * p[idx+1] + 0.114f * p[idx+2], in thousandths
Luminance(p, idx) == 299 * p[idx + 1] + 587 * p[idx + 2] + 114 * p[idx + 3]

\* a mutant of calculateFrameDifference: the frame is compared with a black
\* frame instead of the stored baseline
calculateFrameDifference_FromBlack(current, previous, width, height) ==
    LET samples == Sampled(width) \X Sampled(height)
        diff == [s \in samples |->
                   Abs(Luminance(current, (s[2] * width + s[1]) * 4))]
        sample_count == Cardinality(samples)
    IN IF sample_count = 0 THEN 0
       ELSE Min(1000, FloatDiv(SumOver(samples, diff) * 5, 255 * sample_count))

\* a mutant of calculateFrameDifference: the average is not amplified by 5
calculateFrameDifference_NoAmplify(current, previous, width, height) ==
    LET samples == Sampled(width) \X Sampled(height)
        diff == [s \in samples |->
                   LET idx == (s[2] * width + s[1]) * 4 IN
                   Abs(Luminance(current, idx) - Luminance(previous, idx))]
        sample_count == Cardinality(samples)
    IN IF sample_count = 0 THEN 0
       ELSE Min(1000, FloatDiv(SumOver(samples, diff), 255 * sample_count))

\* float calculateFrameDifference(current, previous, width, height)
calculateFrameDifference(current, previous, width, height) ==
    LET samples == Sampled(width) \X Sampled(height)
        diff == [s \in samples |->
                   LET idx == (s[2] * width + s[1]) * 4 IN
                   Abs(Luminance(current, idx) - Luminance(previous, idx))]
        sample_count == Cardinality(samples)
    IN IF sample_count = 0 THEN 0
       \* total_diff sums diff / 255; avg_diff = total_diff / sample_count;
       \* the result is min(1, avg_diff * 5)
       ELSE Min(1000, FloatDiv(SumOver(samples, diff) * 5, 255 * sample_count))

RECURSIVE SumSeq(_)
SumSeq(q) == IF q = <<>> THEN 0 ELSE Head(q) + SumSeq(Tail(q))

\* a mutant of PushMotion: the window is never trimmed
PushMotion_NoPop(q, frame_diff) == Append(q, frame_diff)

\* motion_history_.push_back(frame_diff);
\* if (motion_history_.size() > history_frames_) motion_history_.pop_front();
PushMotion(q, frame_diff) ==
    LET pushed == Append(q, frame_diff) IN
    IF Len(pushed) > history_frames_ THEN Tail(pushed) ELSE pushed

\* the smoothed level of analyze: the average of the window, or the old
\* level when the window is empty
AverageMotion(history) ==
    IF history # <<>> THEN FloatDiv(SumSeq(history), Len(history))
    ELSE current_motion_level_

\* a mutant of analyzeTiming: motion moves the last-motion time only, the
\* stillness window keeps its start
analyzeTiming_KeepsStart(pixels, history, level, is_motion) ==
    [prev_frame |-> pixels, prev_width |-> prev_width_,
     prev_height |-> prev_height_,
     motion_history |-> history,
     pushed_at |-> SubSeq(Append(motion_pushed_at, sys_now),
                          Len(motion_pushed_at) + 2 - Len(history),
                          Len(motion_pushed_at) + 1),
     current_motion_level |-> level,
     last_motion_time |-> IF is_motion THEN sys_now ELSE last_motion_time_,
     stillness_start_time |-> stillness_start_time_,
     pushed |-> TRUE,
     state |-> [motion_level |-> level,
                last_motion_timestamp |->
                    IF is_motion THEN sys_now ELSE last_motion_time_,
                stillness_duration |-> sys_now - stillness_start_time_,
                is_still |-> ~is_motion]]

\* analyze from "Update timing" on
analyzeTiming(pixels, history, level, is_motion) ==
    [prev_frame |-> pixels, prev_width |-> prev_width_,
     prev_height |-> prev_height_,
     motion_history |-> history,
     \* the push times of the entries that history keeps
     pushed_at |-> SubSeq(Append(motion_pushed_at, sys_now),
                          Len(motion_pushed_at) + 2 - Len(history),
                          Len(motion_pushed_at) + 1),
     current_motion_level |-> level,
     last_motion_time |-> IF is_motion THEN sys_now ELSE last_motion_time_,
     stillness_start_time |-> IF is_motion THEN sys_now
                              ELSE stillness_start_time_,
     pushed |-> TRUE,
     state |-> [motion_level |-> level,
                last_motion_timestamp |->
                    IF is_motion THEN sys_now ELSE last_motion_time_,
                stillness_duration |->
                    sys_now - (IF is_motion THEN sys_now
                               ELSE stillness_start_time_),
                is_still |-> ~is_motion]]

\* a mutant of analyzeLevel: a level equal to the threshold counts as motion
analyzeLevel_AtThreshold(pixels, history, level) ==
    analyzeTiming(pixels, history, level, level >= stillness_threshold_)

\* bool is_motion = current_motion_level_ > stillness_threshold_;
analyzeLevel(pixels, history, level) ==
    analyzeTiming(pixels, history, level, level > stillness_threshold_)

analyzeHistory(pixels, history) ==
    analyzeLevel(pixels, history, AverageMotion(history))

\* a mutant of analyze: storing a baseline leaves the stillness window's
\* start where it was
analyze_KeepsStillnessClock(pixels, width, height) ==
    IF prev_frame_ = <<>> \/ prev_width_ # width \/ prev_height_ # height
    THEN [prev_frame |-> pixels, prev_width |-> width, prev_height |-> height,
          motion_history |-> motion_history_,
          pushed_at |-> motion_pushed_at,
          current_motion_level |-> current_motion_level_,
          last_motion_time |-> sys_now,
          stillness_start_time |-> stillness_start_time_,
          pushed |-> FALSE,
          state |-> [motion_level |-> 0, last_motion_timestamp |-> sys_now,
                     stillness_duration |-> 0, is_still |-> TRUE]]
    ELSE analyzeHistory(pixels,
             PushMotion(motion_history_,
                        calculateFrameDifference(pixels, prev_frame_,
                                                 width, height)))

\* MotionState analyze(const uint8_t* pixels, int width, int height)
analyze(pixels, width, height) ==
    IF prev_frame_ = <<>> \/ prev_width_ # width \/ prev_height_ # height
    THEN [prev_frame |-> pixels, prev_width |-> width, prev_height |-> height,
          motion_history |-> motion_history_,
          pushed_at |-> motion_pushed_at,
          current_motion_level |-> current_motion_level_,
          last_motion_time |-> sys_now,
          stillness_start_time |-> sys_now,
          pushed |-> FALSE,
          state |-> [motion_level |-> 0, last_motion_timestamp |-> sys_now,
                     stillness_duration |-> 0, is_still |-> TRUE]]
    ELSE analyzeHistory(pixels,
             PushMotion(motion_history_,
                        calculateFrameDifference(pixels, prev_frame_,
                                                 width, height)))

Analyze(frame) ==
    \E post \in {analyze(frame.pixels, frame.width, frame.height)} :
    /\ prev_frame_' = post.prev_frame
    /\ prev_width_' = post.prev_width
    /\ prev_height_' = post.prev_height
    /\ motion_history_' = post.motion_history
    /\ motion_pushed_at' = post.pushed_at
    /\ current_motion_level_' = post.current_motion_level
    /\ last_motion_time_' = post.last_motion_time
    /\ stillness_start_time_' = post.stillness_start_time
    /\ ret' = Ret("analyze", frame, ZeroPosition, post.pushed, post.state)
    /\ UNCHANGED <<stillness_threshold_, history_frames_, sys_now>>
    /\ UNCHANGED depthVars
    /\ UNCHANGED <<poseVars, tick, g_instances>>

\* void MotionAnalyzer::reset(): the fields it writes
MotionResetFields ==
    /\ prev_frame_' = <<>>
    /\ prev_width_' = 0
    /\ prev_height_' = 0
    /\ motion_history_' = <<>>
    /\ motion_pushed_at' = <<>>
    /\ current_motion_level_' = 0
    /\ last_motion_time_' = sys_now
    /\ stillness_start_time_' = sys_now

MotionReset ==
    /\ MotionResetFields
    \* history: ret.arg names the call that came before this reset
    /\ ret' = Ret("motionReset", ret.op, ZeroPosition, FALSE, NoArg)
    /\ UNCHANGED <<stillness_threshold_, history_frames_, sys_now>>
    /\ UNCHANGED depthVars
    /\ UNCHANGED <<poseVars, tick, g_instances>>

\* void MotionAnalyzer::init(float stillness_threshold, int history_frames)
MotionInit(stillness_threshold, history_frames) ==
    /\ stillness_threshold_' = stillness_threshold
    /\ history_frames_' = history_frames
    /\ MotionResetFields
    /\ ret' = Ret("motionInit", <<stillness_threshold, history_frames>>,
                  ZeroPosition, FALSE, NoArg)
    /\ UNCHANGED sys_now
    /\ UNCHANGED depthVars
    /\ UNCHANGED <<poseVars, tick, g_instances>>

\* std::chrono::system_clock advances by dt ms between two calls
SysElapse(dt, limit) ==
    /\ sys_now + dt <= limit
    /\ sys_now' = sys_now + dt
    /\ UNCHANGED <<stillness_threshold_, history_frames_, prev_frame_,
                   prev_width_, prev_height_, motion_history_,
                   current_motion_level_, last_motion_time_,
                   stillness_start_time_, motion_pushed_at>>
    /\ UNCHANGED depthVars
    /\ UNCHANGED <<poseVars, tick, g_instances>>
    /\ UNCHANGED ret

\* std::chrono::system_clock is the wall clock: an adjustment of the time
\* of day sets it back by dt ms between two calls
SysStepBack(dt) ==
    /\ sys_now - dt >= 0
    /\ sys_now' = sys_now - dt
    /\ UNCHANGED <<stillness_threshold_, history_frames_, prev_frame_,
                   prev_width_, prev_height_, motion_history_,
                   current_motion_level_, last_motion_time_,
                   stillness_start_time_, motion_pushed_at>>
    /\ UNCHANGED depthVars
    /\ UNCHANGED <<poseVars, tick, g_instances>>
    /\ UNCHANGED ret

\* int64_t MotionAnalyzer::getSecondsSinceMotion() const
getSecondsSinceMotion == TruncDiv(sys_now - last_motion_time_, 1000)

\* a call of getSecondsSinceMotion
GetSecondsSinceMotion ==
    /\ ret' = Ret("getSecondsSinceMotion", NoArg, ZeroPosition, FALSE,
                  getSecondsSinceMotion)
    /\ UNCHANGED motionVars
    /\ UNCHANGED depthVars
    /\ UNCHANGED <<poseVars, tick, g_instances>>

(***************************************************************************)
(* PoseEstimator (pose_estimator.cpp).  A Detection is a record of the     *)
(* box corners x1, y1, x2, y2 (thousandths of a pixel), the confidence     *)
(* (thousandths) and the class_id.                                         *)
(***************************************************************************)
\* enum class Pose
UNKNOWN == 0
LYING == 1
SITTING == 2
STANDING == 3
FALLEN == 4
Poses == {UNKNOWN, LYING, SITTING, STANDING, FALLEN}

MAX_HISTORY == 100
RECENT_FRAMES == 10
PERSON_CLASS == 0

RECURSIVE FindPerson(_, _, _, _)
\* the loop of update over detections[i..]: the index of the detection that
\* person points to (0 for nullptr)
FindPerson(detections, i, person, best_conf) ==
    IF i > Len(detections) THEN person
    ELSE IF /\ detections[i].class_id = PERSON_CLASS
            /\ detections[i].confidence > best_conf
         THEN FindPerson(detections, i + 1, i, detections[i].confidence)
         ELSE FindPerson(detections, i + 1, person, best_conf)

\* Pose estimatePoseFromBox(const Detection& det); aspect_ratio is the
\* fraction box_width / box_height, and center_y2 is twice center_y
estimatePoseFromBox(det) ==
    LET box_width == det.x2 - det.x1
        box_height == Max(det.y2 - det.y1, 1000)
        center_y2 == det.y1 + det.y2
    IN IF box_width > 2 * box_height /\ center_y2 > 1400 THEN FALLEN
       ELSE IF 2 * box_width > 3 * box_height THEN LYING
       ELSE IF 2 * box_width < box_height THEN STANDING
       ELSE IF box_width < box_height /\ center_y2 > 800 THEN SITTING
       ELSE IF 10 * box_width < 7 * box_height THEN STANDING
       ELSE UNKNOWN

RECURSIVE LimitPoseHistory(_)
\* while (pose_history_.size() > MAX_HISTORY) pose_history_.pop_front();
LimitPoseHistory(h) ==
    IF Len(h) > MAX_HISTORY THEN LimitPoseHistory(Tail(h)) ELSE h

\* a mutant of RecentEntries: the counting loop visits the last 5 entries
RecentEntries_LastFive(h) == (Len(h) - Min(Len(h), 5) + 1)..Len(h)

\* the indices of the entries the counting loop visits: the last
\* min(size, 10)
RecentEntries(h) == (Len(h) - Min(Len(h), RECENT_FRAMES) + 1)..Len(h)

\* pose_counts[idx] and pose_conf_sum[idx] after the counting loop
PoseCount(h, idx) == Cardinality({k \in RecentEntries(h) : h[k].pose = idx})
PoseConfSum(h, idx) ==
    LET of_pose == {k \in RecentEntries(h) : h[k].pose = idx}
        conf == [k \in of_pose |-> h[k].confidence]
    IN SumOver(of_pose, conf)

\* a mutant of MostCommonPose: on a tie the label that comes last wins
\* (the loop tests pose_counts[i] >= best_count)
MostCommonPose_LastWins(h, i, best_pose) ==
    CHOOSE L \in Poses :
       /\ \A K \in Poses : PoseCount(h, K) <= PoseCount(h, L)
       /\ \A K \in Poses : K > L => PoseCount(h, K) < PoseCount(h, L)

RECURSIVE MostCommonPose(_, _, _)
\* the loop "for (int i = 0; i < 5; i++) if (pose_counts[i] > best_count)"
\* from index i on: the pose it leaves in best_pose
MostCommonPose(h, i, best_pose) ==
    IF i > FALLEN THEN best_pose
    ELSE IF PoseCount(h, i) > (IF best_pose < 0 THEN 0
                               ELSE PoseCount(h, best_pose))
         THEN MostCommonPose(h, i + 1, i)
         ELSE MostCommonPose(h, i + 1, best_pose)

\* a mutant of Promotes: any count is enough
Promotes_AnyCount(best_count, conf_sum) == TRUE

\* a mutant of Promotes: three frames are enough whatever their confidence
Promotes_ThreeFrames(best_count, conf_sum) == best_count >= 3

\* a mutant of Promotes: five frames, and an average confidence above 0.8
Promotes_HighConfidence(best_count, conf_sum) ==
    best_count >= 5 /\ conf_sum > 800 * best_count

\* if (best_count >= 5 || (best_count >= 3 && best_conf > 0.7f)), with
\* best_conf = conf_sum / best_count
Promotes(best_count, conf_sum) ==
    best_count >= 5 \/ (best_count >= 3 /\ conf_sum > 700 * best_count)

\* a mutant of PoseAfter: a change of pose restarts the time in the current
\* pose, but is not recorded as the last change
PoseAfter_StartOnly(h, best_pose, best_count, conf_sum) ==
    LET changes == Promotes(best_count, conf_sum) /\ best_pose # current_pose_
    IN [current_pose |-> IF changes THEN best_pose ELSE current_pose_,
        previous_pose |-> IF changes THEN current_pose_ ELSE previous_pose_,
        pose_start_time |-> IF changes THEN sys_now ELSE pose_start_time_,
        last_pose_change_time |-> last_pose_change_time_,
        pose_confidence |-> FloatDiv(conf_sum, best_count),
        pose_history |-> h]

\* a mutant of PoseAfter: the pose confidence is that of the current pose,
\* written only when the candidate label passes the promotion test
PoseAfter_ConfidenceOnPromotion(h, best_pose, best_count, conf_sum) ==
    LET changes == Promotes(best_count, conf_sum) /\ best_pose # current_pose_
    IN [current_pose |-> IF changes THEN best_pose ELSE current_pose_,
        previous_pose |-> IF changes THEN current_pose_ ELSE previous_pose_,
        pose_start_time |-> IF changes THEN sys_now ELSE pose_start_time_,
        last_pose_change_time |->
            IF changes THEN sys_now ELSE last_pose_change_time_,
        pose_confidence |-> IF Promotes(best_count, conf_sum)
                            THEN FloatDiv(conf_sum, best_count)
                            ELSE pose_confidence_,
        pose_history |-> h]

\* the tail of updatePoseHistory once the history h is updated and the most
\* common recent pose is found
PoseAfter(h, best_pose, best_count, conf_sum) ==
    LET changes == Promotes(best_count, conf_sum) /\ best_pose # current_pose_
    IN [current_pose |-> IF changes THEN best_pose ELSE current_pose_,
        previous_pose |-> IF changes THEN current_pose_ ELSE previous_pose_,
        pose_start_time |-> IF changes THEN sys_now ELSE pose_start_time_,
        last_pose_change_time |->
            IF changes THEN sys_now ELSE last_pose_change_time_,
        pose_confidence |-> FloatDiv(conf_sum, best_count),
        pose_history |-> h]

PoseOf(h, best_pose) ==
    PoseAfter(h, best_pose, PoseCount(h, best_pose),
              PoseConfSum(h, best_pose))

\* void updatePoseHistory(Pose pose, float confidence): the fields after it
updatePoseHistory(pose, confidence) ==
    LET h == LimitPoseHistory(Append(pose_history_,
                 [pose |-> pose, timestamp |-> sys_now,
                  confidence |-> confidence]))
    IN PoseOf(h, MostCommonPose(h, UNKNOWN, -1))

\* a mutant of update: a tick without a person clears the pose history
update_ForgetsOnMiss(detections, person) ==
    IF person = 0
    THEN [current_pose |-> current_pose_,
          previous_pose |-> previous_pose_,
          pose_start_time |-> pose_start_time_,
          last_pose_change_time |-> last_pose_change_time_,
          pose_confidence |-> FloatDiv(pose_confidence_ * 95, 100),
          pose_history |-> <<>>]
    ELSE updatePoseHistory(estimatePoseFromBox(detections[person]),
                           detections[person].confidence)

\* void update(const std::vector<Detection>& detections), person being the
\* index of the detection its loop selected: the fields after it
update(detections, person) ==
    IF person = 0
    THEN [current_pose |-> current_pose_,
          previous_pose |-> previous_pose_,
          pose_start_time |-> pose_start_time_,
          last_pose_change_time |-> last_pose_change_time_,
          \* pose_confidence_ *= 0.95f
          pose_confidence |-> FloatDiv(pose_confidence_ * 95, 100),
          pose_history |-> pose_history_]
    ELSE updatePoseHistory(estimatePoseFromBox(detections[person]),
                           detections[person].confidence)

\* the assignments of update to the PoseEstimator fields
UpdateFields(detections, person) ==
    \E post \in {update(detections, person)} :
    /\ current_pose_' = post.current_pose
    /\ previous_pose_' = post.previous_pose
    /\ pose_start_time_' = post.pose_start_time
    /\ last_pose_change_time_' = post.last_pose_change_time
    /\ pose_confidence_' = post.pose_confidence
    /\ pose_history_' = post.pose_history
    /\ no_person_run' = IF person = 0 THEN no_person_run + 1 ELSE 0

\* what update leaves in ret: the detection it selected and its raw label
UpdateValue(detections, person) ==
    [person |-> person,
     estimated |-> IF person = 0 THEN UNKNOWN
                   ELSE estimatePoseFromBox(detections[person])]

Update(detections) ==
    \E person \in {FindPerson(detections, 1, 0, 0)} :
    /\ UpdateFields(detections, person)
    /\ ret' = Ret("update", detections, ZeroPosition, person # 0,
                  UpdateValue(detections, person))
    /\ UNCHANGED <<depthVars, motionVars, tick, g_instances>>

\* a mutant of hasPoseChanged: a pose that never changed since the reset
\* has not changed
hasPoseChanged_SinceChange(within_seconds) ==
    /\ current_pose_ # previous_pose_
    /\ sys_now - last_pose_change_time_ < within_seconds * 1000

\* bool hasPoseChanged(int within_seconds) const
hasPoseChanged(within_seconds) ==
    sys_now - last_pose_change_time_ < within_seconds * 1000

\* a call of hasPoseChanged
HasPoseChanged(within_seconds) ==
    /\ ret' = Ret("hasPoseChanged", within_seconds, ZeroPosition, FALSE,
                  hasPoseChanged(within_seconds))
    /\ UNCHANGED <<depthVars, motionVars, poseVars, tick, g_instances>>

\* int64_t getTimeInCurrentPose() const
getTimeInCurrentPose == TruncDiv(sys_now - pose_start_time_, 1000)

\* a call of getTimeInCurrentPose
GetTimeInCurrentPose ==
    /\ ret' = Ret("getTimeInCurrentPose", NoArg, ZeroPosition, FALSE,
                  getTimeInCurrentPose)
    /\ UNCHANGED <<depthVars, motionVars, poseVars, tick, g_instances>>

\* void PoseEstimator::reset()
\* a mutant of PoseReset: the pose before the reset is kept as previous pose
PoseReset_KeepsPrevious ==
    /\ current_pose_' = UNKNOWN
    /\ previous_pose_' = current_pose_
    /\ pose_confidence_' = 0
    /\ pose_history_' = <<>>
    /\ pose_start_time_' = sys_now
    /\ last_pose_change_time_' = sys_now
    /\ no_person_run' = 0
    /\ ret' = Ret("poseReset", ret.op, ZeroPosition, FALSE, NoArg)
    /\ UNCHANGED <<depthVars, motionVars, tick, g_instances>>

PoseReset ==
    /\ current_pose_' = UNKNOWN
    /\ previous_pose_' = UNKNOWN
    /\ pose_confidence_' = 0
    /\ pose_history_' = <<>>
    /\ pose_start_time_' = sys_now
    /\ last_pose_change_time_' = sys_now
    /\ no_person_run' = 0
    \* history: ret.arg names the call that came before this reset
    /\ ret' = Ret("poseReset", ret.op, ZeroPosition, FALSE, NoArg)
    /\ UNCHANGED <<depthVars, motionVars, tick, g_instances>>

\* the depth fields of a tick's result before the depth path has run:
\* float distance_meters = 0.0f; ... float pos_x = 0.0f, pos_y = 0.0f,
\* pos_z = 0.0f;
ZeroDepthFields ==
    [depth_fall |-> FALSE, vertical_drop_meters |-> 0, fall_confidence |-> 0,
     distance_meters |-> 0, depth_motion_level |-> 0,
     bed_proximity_meters |-> 0, in_bed_zone |-> FALSE,
     position_3d |-> ZeroPosition]

\* no detectMotionWithDepth call is in progress
Idle == [stage |-> "idle", width |-> 0, height |-> 0, detections |-> <<>>,
         result |-> ZeroDepthFields]

\* a mutant of DepthLocals: the locals keep the values of the call before
DepthLocals_Stale == tick.result

\* the locals that hold the depth fields of the result, as declared
DepthLocals == ZeroDepthFields

(***************************************************************************)
(* The bridge: detectMotionWithDepth (native_bridge.cpp), with the         *)
(* detector's output as an argument.  The call runs in three steps,        *)
(* because detectFall reads the grid that updateDepthMap stored and        *)
(* analyzeMotion reads what detectFall stored; tick holds the position of  *)
(* the call and its arguments between the steps.                           *)
(***************************************************************************)
\* no depth array was passed (depth_data == nullptr)
NoDepthFrame == [width |-> 0, height |-> 0, data |-> <<>>]

\* triage::BoundingBox person_bbox = {det.x1 / width, det.y1 / height,
\*     (det.x2 - det.x1) / width, (det.y2 - det.y1) / height}
PersonBBox(det, width, height) ==
    [x |-> FloatDiv(det.x1, width),
     y |-> FloatDiv(det.y1, height),
     width |-> FloatDiv(det.x2 - det.x1, width),
     height |-> FloatDiv(det.y2 - det.y1, height)]

\* auto& det = detections[0]: the index of the detection whose box the depth
\* path uses
SubjectOfDepth(detections) == 1

\* the depth grid after "if (depth_ptr != nullptr && depth_width > 0 &&
\* depth_height > 0) updateDepthMap(...)"
DepthAfterTick(depth) ==
    IF depth.data # <<>> /\ depth.width > 0 /\ depth.height > 0
    THEN updateDepthMap(depth.data, depth.width, depth.height)
    ELSE [initialized |-> initialized_, width |-> width_, height |-> height_,
          principal_x |-> principal_x_, principal_y |-> principal_y_,
          depth_map |-> depth_map_]

\* the member initialisers of depth_processor.h and motion_analyzer.h
DEFAULT_STILLNESS_THRESHOLD == 50
DEFAULT_HISTORY_FRAMES == 30
DEFAULT_BED_DISTANCE == 2000
DEFAULT_BED_RADIUS == 1500

\* the depth grid of a DepthProcessor that "if (!g_depth_processor)
\* g_depth_processor = std::make_unique<triage::DepthProcessor>()" has just
\* created, after the updateDepthMap call of the same tick: init(width,
\* height) and the copy of the frame
DepthAfterCreation(depth) ==
    IF depth.data # <<>> /\ depth.width > 0 /\ depth.height > 0
    THEN [initialized |-> TRUE, width |-> depth.width,
          height |-> depth.height,
          principal_x |-> FloatDiv(depth.width * 1000, 2),
          principal_y |-> FloatDiv(depth.height * 1000, 2),
          depth_map |-> depth.data]
    ELSE [initialized |-> FALSE, width |-> 0, height |-> 0,
          principal_x |-> 0, principal_y |-> 0, depth_map |-> <<>>]

\* the bridge after init() and the creation of the depth processor: every
\* unique_ptr holds a freshly constructed object
AllInstances ==
    [g_yolo_detector |-> TRUE, g_motion_analyzer |-> TRUE,
     g_pose_estimator |-> TRUE, g_depth_processor |-> TRUE]

\* if (g_yolo_detector && g_motion_analyzer && g_pose_estimator)
HaveAnalyzers ==
    /\ g_instances.g_yolo_detector
    /\ g_instances.g_motion_analyzer
    /\ g_instances.g_pose_estimator

\* detectMotionWithDepth up to g_pose_estimator->update(detections)
TickBegin(depth, bitmap, detections) ==
    /\ tick.stage = "idle"
    /\ \E post \in {IF g_instances.g_depth_processor
                     THEN DepthAfterTick(depth)
                     ELSE DepthAfterCreation(depth)} :
         /\ initialized_' = post.initialized
         /\ width_' = post.width
         /\ height_' = post.height
         /\ principal_x_' = post.principal_x
         /\ principal_y_' = post.principal_y
         /\ depth_map_' = post.depth_map
         \* if (g_depth_processor->hasDepthData() && !detections.empty())
         /\ tick' = [stage |-> IF /\ HaveAnalyzers
                                  /\ post.initialized
                                  /\ post.depth_map # <<>>
                                  /\ detections # <<>>
                               THEN "detectFall" ELSE "idle",
                     width |-> bitmap.width, height |-> bitmap.height,
                     detections |-> detections,
                     result |-> DepthLocals]
    \* the fields of a DepthProcessor created by this tick are those of its
    \* member initialisers
    /\ IF g_instances.g_depth_processor
       THEN UNCHANGED <<position_history_, last_position_, last_distance_,
                        bed_center_, bed_radius_, fed>>
       ELSE /\ position_history_' = <<>>
            /\ last_position_' = ZeroPosition
            /\ last_distance_' = 0
            /\ bed_center_' = [x |-> 0, y |-> 0, z |-> DEFAULT_BED_DISTANCE]
            /\ bed_radius_' = DEFAULT_BED_RADIUS
            /\ fed' = NoFed
    /\ g_instances' = [g_instances EXCEPT !.g_depth_processor = TRUE]
    /\ IF HaveAnalyzers
       THEN /\ \E post \in {analyze(bitmap.pixels, bitmap.width,
                                     bitmap.height)} :
                 /\ prev_frame_' = post.prev_frame
                 /\ prev_width_' = post.prev_width
                 /\ prev_height_' = post.prev_height
                 /\ motion_history_' = post.motion_history
                 /\ motion_pushed_at' = post.pushed_at
                 /\ current_motion_level_' = post.current_motion_level
                 /\ last_motion_time_' = post.last_motion_time
                 /\ stillness_start_time_' = post.stillness_start_time
            /\ \E person \in {FindPerson(detections, 1, 0, 0)} :
                 /\ UpdateFields(detections, person)
                 /\ ret' = Ret("detectMotionWithDepth", detections,
                               ZeroPosition, person # 0,
                               UpdateValue(detections, person))
       \* without the analyzers the call returns "{}"
       ELSE /\ UNCHANGED <<prev_frame_, prev_width_, prev_height_,
                           motion_history_, motion_pushed_at,
                           current_motion_level_, last_motion_time_,
                           stillness_start_time_>>
            /\ UNCHANGED poseVars
            /\ ret' = Ret("detectMotionWithDepth", detections,
                          ZeroPosition, FALSE, NoArg)
    /\ UNCHANGED now
    /\ UNCHANGED <<stillness_threshold_, history_frames_, sys_now>>

\* g_depth_processor->f(...) and g_pose_estimator->f(...) on a unique_ptr
\* that cleanup has emptied while the tick was under way are undefined: the
\* call faults, or it runs on what the destroyed object left in memory
DerefOutcomes(live) == IF live THEN {"runs"} ELSE {"runs", "fault"}

\* the process dies in the tick
TickFault ==
    /\ tick' = [tick EXCEPT !.stage = "fault"]
    /\ ret' = Ret("fault", ret.op, ZeroPosition, FALSE, NoArg)
    /\ UNCHANGED <<depthVars, motionVars, poseVars, g_instances>>

\* g_depth_processor->detectFall(person_bbox, ...) runs
TickDetectFallRuns ==
    /\ \E post \in {detectFall(
                        PersonBBox(tick.detections[
                                       SubjectOfDepth(tick.detections)],
                                   tick.width, tick.height),
                        tick.width, tick.height)} :
         /\ position_history_' = post.history
         /\ last_position_' = post.last_position
         /\ last_distance_' = post.last_distance
         /\ fed' = IF post.pushed
                   THEN FedAfter(post.pos, now, position_history_,
                                 post.history)
                   ELSE fed
         /\ ret' = Ret("detectFall",
                       PersonBBox(tick.detections[
                                      SubjectOfDepth(tick.detections)],
                                  tick.width, tick.height),
                       post.pos, post.pushed, post.result)
         \* depth_fall = fall_result.fall_detected; vertical_drop = ...;
         \* fall_confidence = fall_result.confidence;
         /\ tick' = [tick EXCEPT
                       !.stage = "analyzeMotion",
                       !.result.depth_fall = post.result.fall_detected,
                       !.result.vertical_drop_meters =
                           post.result.vertical_drop_meters,
                       !.result.fall_confidence = post.result.confidence]
    /\ UNCHANGED <<initialized_, width_, height_, depth_map_, principal_x_,
                   principal_y_, bed_center_, bed_radius_, now>>
    /\ UNCHANGED motionVars
    /\ UNCHANGED poseVars
    /\ UNCHANGED g_instances

\* detectMotionWithDepth: g_depth_processor->detectFall(person_bbox, ...)
TickDetectFall ==
    /\ tick.stage = "detectFall"
    /\ \E outcome \in DerefOutcomes(g_instances.g_depth_processor) :
         IF outcome = "fault" THEN TickFault ELSE TickDetectFallRuns

\* g_depth_processor->analyzeMotion(person_bbox, ...) runs, and the getters
\* of the analyzers that build the return value
TickAnalyzeMotionRuns ==
    /\ \E post \in {analyzeMotion(
                        PersonBBox(tick.detections[
                                       SubjectOfDepth(tick.detections)],
                                   tick.width, tick.height),
                        tick.width, tick.height)} :
         /\ last_position_' = post.last_position
         /\ last_distance_' = post.last_distance
         /\ ret' = Ret("analyzeMotion",
                       PersonBBox(tick.detections[
                                      SubjectOfDepth(tick.detections)],
                                  tick.width, tick.height),
                       post.pos, FALSE, post.result)
         \* distance_meters = motion_result.distance_meters; ...
         /\ tick' = [tick EXCEPT
                       !.stage = "idle",
                       !.result.distance_meters =
                           post.result.distance_meters,
                       !.result.depth_motion_level =
                           post.result.depth_motion_level,
                       !.result.bed_proximity_meters =
                           post.result.bed_proximity_meters,
                       !.result.in_bed_zone = post.result.in_bed_zone,
                       !.result.position_3d = post.result.position_3d]
    /\ UNCHANGED <<initialized_, width_, height_, depth_map_, principal_x_,
                   principal_y_, position_history_, bed_center_, bed_radius_,
                   now, fed>>
    /\ UNCHANGED motionVars
    /\ UNCHANGED poseVars
    /\ UNCHANGED g_instances

\* detectMotionWithDepth: g_depth_processor->analyzeMotion(person_bbox, ...)
\* and the return
TickAnalyzeMotion ==
    /\ tick.stage = "analyzeMotion"
    /\ \E outcome \in DerefOutcomes(g_instances = AllInstances) :
         IF outcome = "fault" THEN TickFault ELSE TickAnalyzeMotionRuns

\* a mutant of Cleanup: cleanup and detectMotionWithDepth take the same
\* lock, so cleanup waits for the tick under way to return
Cleanup_Locked ==
    /\ tick.stage = "idle"
    /\ g_instances' = [g_yolo_detector |-> FALSE,
                       g_motion_analyzer |-> FALSE,
                       g_pose_estimator |-> FALSE,
                       g_depth_processor |-> FALSE]
    /\ IF g_instances.g_depth_processor
       THEN /\ position_history_' = <<>>
            /\ last_position_' = ZeroPosition
            /\ last_distance_' = 0
            /\ fed' = NoFed
       ELSE UNCHANGED <<position_history_, last_position_, last_distance_,
                        fed>>
    /\ ret' = Ret("cleanup", ret.op, ZeroPosition, FALSE, NoArg)
    /\ UNCHANGED <<initialized_, width_, height_, depth_map_, principal_x_,
                   principal_y_, bed_center_, bed_radius_, now>>
    /\ UNCHANGED <<motionVars, poseVars, tick>>

\* Java_com_triage_vision_native_NativeBridge_cleanup, called from any
\* thread at any point of a tick: it takes no lock.  It empties the
\* analyzers' unique_ptrs, calls reset() on the depth processor when there
\* is one and empties its unique_ptr.  The fields keep what the destroyed
\* objects left in memory; tick is the position of the other thread.
Cleanup ==
    \* the process is alive
    /\ tick.stage # "fault"
    /\ g_instances' = [g_yolo_detector |-> FALSE,
                       g_motion_analyzer |-> FALSE,
                       g_pose_estimator |-> FALSE,
                       g_depth_processor |-> FALSE]
    /\ IF g_instances.g_depth_processor
       THEN /\ position_history_' = <<>>
            /\ last_position_' = ZeroPosition
            /\ last_distance_' = 0
            /\ fed' = NoFed
       ELSE UNCHANGED <<position_history_, last_position_, last_distance_,
                        fed>>
    /\ ret' = Ret("cleanup", ret.op, ZeroPosition, FALSE, NoArg)
    /\ UNCHANGED <<initialized_, width_, height_, depth_map_, principal_x_,
                   principal_y_, bed_center_, bed_radius_, now>>
    /\ UNCHANGED <<motionVars, poseVars, tick>>

(***************************************************************************)
(* Initial state: a default-constructed DepthProcessor (the member         *)
(* initialisers of depth_processor.h) and a constructed MotionAnalyzer     *)
(* (its constructor calls reset()).                                        *)
(***************************************************************************)
Init ==
    /\ initialized_ = FALSE
    /\ width_ = 0
    /\ height_ = 0
    /\ depth_map_ = <<>>
    /\ principal_x_ = 0
    /\ principal_y_ = 0
    /\ position_history_ = <<>>
    /\ last_position_ = ZeroPosition
    /\ last_distance_ = 0
    /\ bed_center_ = [x |-> 0, y |-> 0, z |-> DEFAULT_BED_DISTANCE]
    /\ bed_radius_ = DEFAULT_BED_RADIUS
    /\ now = 0
    /\ fed = NoFed
    /\ stillness_threshold_ = DEFAULT_STILLNESS_THRESHOLD
    /\ history_frames_ = DEFAULT_HISTORY_FRAMES
    /\ prev_frame_ = <<>>
    /\ prev_width_ = 0
    /\ prev_height_ = 0
    /\ motion_history_ = <<>>
    /\ motion_pushed_at = <<>>
    /\ current_motion_level_ = 0
    /\ last_motion_time_ = 0
    /\ stillness_start_time_ = 0
    /\ sys_now = 0
    /\ current_pose_ = UNKNOWN
    /\ previous_pose_ = UNKNOWN
    /\ pose_confidence_ = 0
    /\ pose_history_ = <<>>
    /\ pose_start_time_ = 0
    /\ last_pose_change_time_ = 0
    /\ no_person_run = 0
    /\ tick = Idle
    /\ g_instances = AllInstances
    /\ ret = Ret("construct", NoArg, ZeroPosition, FALSE, NoArg)

(***************************************************************************)
(* Inputs.                                                                 *)
(***************************************************************************)
\* a depth frame of one reading everywhere
UniformFrame(w, h, d) ==
    [width |-> w, height |-> h, data |-> [i \in 1..(w * h) |-> d]]

\* 2 x 32 frames: a wall at 10 m, and the same with rows 5..27 unmeasured
\* (0 on even rows, 0xFFFF on odd rows) and the rows below them at 8 m
FrameFar == UniformFrame(2, 32, 10000)
FrameHoles ==
    [width |-> 2, height |-> 32,
     data |-> [i \in 1..64 |->
                 LET row == (i - 1) \div 2 IN
                 IF row < 5 THEN 10000
                 ELSE IF row > 27 THEN 8000
                 ELSE IF row % 2 = 0 THEN 0 ELSE INVALID_DEPTH_MAX]]
\* a frame of another size
FrameSmall == UniformFrame(2, 16, 7000)

Box(x, y, w, h) == [x |-> x, y |-> y, width |-> w, height |-> h]
\* depth-space centre rows 1, 3, 11, 22 and 30 of a 32-row frame: on FrameFar
\* y = -0.30, -0.26, -0.10, 0.12 and 0.28 m
BoxTop == Box(250, 0, 500, 100)
BoxUpper == Box(250, 50, 500, 100)
BoxMid == Box(250, 250, 500, 200)
BoxLow == Box(250, 600, 500, 200)
BoxBottom == Box(250, 900, 500, 100)
\* the whole frame: centre row 16
BoxTall == Box(0, 0, 1000, 1000)

RgbSizes == {<<640, 480>>}

BedRegions == {[center |-> [x |-> 0, y |-> 0, z |-> 2000], radius |-> 1500],
               [center |-> [x |-> 0, y |-> 0, z |-> 9000], radius |-> 2000]}

Frames == {FrameFar, FrameHoles, FrameSmall}
Boxes == {BoxTop, BoxLow, BoxTall}
Probes == {<<0, 0>>, <<1, 10>>, <<1, 11>>, <<2, 0>>, <<0, -1>>}
Steps == {1001}

\* bounds of the general specification
MaxSamples == 2
MaxClock == 1001

(***************************************************************************)
(* Spec: any sequence of DepthProcessor calls.                             *)
(***************************************************************************)
Next ==
    \/ \E f \in Frames : UpdateDepthMap(f)
    \/ \E b \in Boxes, s \in RgbSizes :
          /\ Len(position_history_) < MaxSamples
          /\ DetectFall(b, s[1], s[2])
    \/ \E b \in Boxes, s \in RgbSizes : AnalyzeMotion(b, s[1], s[2])
    \/ \E r \in BedRegions : SetBedRegion(r.center, r.radius)
    \/ Reset
    \/ \E p \in Probes : GetDepthAt(p[1], p[2])
    \/ \E dt \in Steps : Elapse(dt, MaxClock)

Spec == Init /\ [][Next]_vars

(***************************************************************************)
(* SpecWindow: one subject standing still in front of a wall, sampled any  *)
(* number of times at gaps of 0, 1000 or 1001 ms: the position window      *)
(* fills to its capacity and ages out.                                     *)
(***************************************************************************)
WindowSteps == {1000, 1001}
MaxWindowClock == 3001

NextWindow ==
    \/ UpdateDepthMap(FrameFar)
    \/ \E s \in RgbSizes : DetectFall(BoxTop, s[1], s[2])
    \/ \E s \in RgbSizes : AnalyzeMotion(BoxTop, s[1], s[2])
    \/ Reset
    \/ \E dt \in WindowSteps : Elapse(dt, MaxWindowClock)

SpecWindow == Init /\ [][NextWindow]_vars

(***************************************************************************)
(* SpecFall: a subject moving between four heights in front of a wall,     *)
(* sampled at gaps that are multiples of 100 ms.                            *)
(***************************************************************************)
FallBoxes == {BoxTop, BoxMid, BoxLow, BoxBottom}
FallSteps == {100, 300}
MaxFallSamples == 3
MaxFallClock == 500

NextFall ==
    \/ UpdateDepthMap(FrameFar)
    \/ \E b \in FallBoxes, s \in RgbSizes :
          /\ Len(position_history_) < MaxFallSamples
          /\ DetectFall(b, s[1], s[2])
    \/ Reset
    \/ \E dt \in FallSteps : Elapse(dt, MaxFallClock)

SpecFall == Init /\ [][NextFall]_vars

(***************************************************************************)
(* SpecSlow: the same subject sampled over five seconds, at gaps that are  *)
(* multiples of 500 ms.                                                    *)
(***************************************************************************)
SlowBoxes == {BoxTop, BoxUpper, BoxBottom}
SlowSteps == {500, 4000}
MaxSlowSamples == 3
MaxSlowClock == 5000

NextSlow ==
    \/ UpdateDepthMap(FrameFar)
    \/ \E b \in SlowBoxes, s \in RgbSizes :
          /\ Len(position_history_) < MaxSlowSamples
          /\ DetectFall(b, s[1], s[2])
    \/ Reset
    \/ \E dt \in SlowSteps : Elapse(dt, MaxSlowClock)

SpecSlow == Init /\ [][NextSlow]_vars

(***************************************************************************)
(* SpecMotion: any sequence of MotionAnalyzer calls on 5 x 1 and 1 x 1     *)
(* RGBA frames.                                                            *)
(***************************************************************************)
\* a frame whose R, G and B are v everywhere, alpha 255
FlatFrame(w, h, v) ==
    [width |-> w, height |-> h,
     pixels |-> [i \in 1..(w * h * 4) |-> IF i % 4 = 0 THEN 255 ELSE v]]

MotionFrames == {FlatFrame(5, 1, 0), FlatFrame(5, 1, 2), FlatFrame(5, 1, 255),
                 FlatFrame(1, 1, 0)}
MotionConfigs == {<<50, 2>>, <<50, 3>>}
MotionSteps == {600}
MaxMotionSamples == 3
MaxSysClock == 1800

NextMotion ==
    \/ \E c \in MotionConfigs : MotionInit(c[1], c[2])
    \/ \E f \in MotionFrames :
          /\ Len(motion_history_) <= MaxMotionSamples
          /\ Analyze(f)
    \/ MotionReset
    \/ \E dt \in MotionSteps : SysElapse(dt, MaxSysClock)

SpecMotion == Init /\ [][NextMotion]_vars

(***************************************************************************)
(* SpecPosition: depth frames with holes and with a depth step, queried    *)
(* with boxes whose centres lie on measured and on unmeasured pixels.      *)
(***************************************************************************)
\* 10 m everywhere but 9 m on rows 9..13 and 7 m on rows 6..8 and 14..16
FrameNoisy ==
    [width |-> 2, height |-> 32,
     data |-> [i \in 1..64 |->
                 LET row == (i - 1) \div 2 IN
                 IF row \in 9..13 THEN 9000
                 ELSE IF row \in 6..16 THEN 7000
                 ELSE 10000]]
\* the left half of the rows around row 13
BoxLeft == Box(0, 300, 400, 250)

PositionFrames == {FrameHoles, FrameNoisy, FrameSmall}
PositionBoxes == {BoxTop, BoxMid, BoxLow, BoxTall, BoxLeft}
MaxPositionSamples == 1

NextPosition ==
    \/ \E f \in PositionFrames : UpdateDepthMap(f)
    \/ \E b \in PositionBoxes : CalculateStats(b)
    \/ \E b \in PositionBoxes, s \in RgbSizes :
          /\ Len(position_history_) < MaxPositionSamples
          /\ DetectFall(b, s[1], s[2])
    \/ \E b \in PositionBoxes, s \in RgbSizes : AnalyzeMotion(b, s[1], s[2])
    \/ Reset

SpecPosition == Init /\ [][NextPosition]_vars

(***************************************************************************)
(* SpecTick: the bridge called with 4x4 bitmaps, with or without a depth   *)
(* frame, and with detection lists that hold a person, no person, or a     *)
(* person after another detection.                                         *)
(***************************************************************************)
Det(x1, y1, x2, y2, confidence, class_id) ==
    [x1 |-> x1, y1 |-> y1, x2 |-> x2, y2 |-> y2,
     confidence |-> confidence, class_id |-> class_id]
\* a person 4 px wide and 1 px high in the middle rows of the bitmap
DetPersonWide == Det(0, 1500, 4000, 2500, 800, 0)
\* a person 1 px wide over the full height, seen with less confidence
DetPersonTall == Det(1500, 0, 2500, 4000, 600, 0)
\* a chair (COCO class 56) in the top row
DetChair == Det(1000, 0, 3000, 500, 900, 56)

TickDetections == {<<>>, <<DetPersonWide>>, <<DetChair>>,
                   <<DetChair, DetPersonWide>>,
                   <<DetPersonTall, DetPersonWide>>}
TickBitmaps == {FlatFrame(4, 4, 0), FlatFrame(4, 4, 255)}
TickDepths == {NoDepthFrame, FrameFar, FrameHoles}
MaxTicks == 2

NextTick ==
    \/ \E depth \in TickDepths, bitmap \in TickBitmaps,
          detections \in TickDetections :
          /\ Len(motion_history_) < MaxTicks
          /\ TickBegin(depth, bitmap, detections)
    \/ TickDetectFall
    \/ TickAnalyzeMotion

SpecTick == Init /\ [][NextTick]_vars

(***************************************************************************)
(* SpecPose: PoseEstimator fed 640x480 detections of a standing person, of *)
(* a fallen person seen with more and with less confidence, and lists      *)
(* without a person.                                                       *)
(***************************************************************************)
\* 40 px wide, 300 px high
DetStanding == Det(300000, 100000, 340000, 400000, 800, 0)
\* 240 px wide, 80 px high (aspect 3.0), centred on row 432 of 480 (0.9)
DetFallen == Det(100000, 392000, 340000, 472000, 800, 0)
DetFallenWeak == Det(100000, 392000, 340000, 472000, 600, 0)
DetTable == Det(100000, 300000, 400000, 400000, 900, 60)

PoseDetections == {<<DetStanding>>, <<DetFallen>>, <<DetFallenWeak>>,
                   <<>>, <<DetTable>>}
PoseSteps == {1000}
MaxPoseSamples == 6
MaxNoPersonRun == 2
MaxPoseClock == 1000

\* a call of update, while the bounds allow it
BoundedUpdate(detections, max_samples, max_run) ==
    /\ IF FindPerson(detections, 1, 0, 0) # 0
       THEN Len(pose_history_) < max_samples
       ELSE no_person_run < max_run
    /\ Update(detections)

NextPose ==
    \/ \E d \in PoseDetections :
          BoundedUpdate(d, MaxPoseSamples, MaxNoPersonRun)
    \/ PoseReset
    \/ \E dt \in PoseSteps : SysElapse(dt, MaxPoseClock)

SpecPose == Init /\ [][NextPose]_vars

(***************************************************************************)
(* SpecPoseRun: long runs of standing and fallen frames, longer than the   *)
(* 10 entries the majority is taken over.                                  *)
(***************************************************************************)
RunDetections == {<<DetStanding>>, <<DetFallen>>}
MaxRunSamples == 11

NextPoseRun ==
    \/ \E d \in RunDetections : BoundedUpdate(d, MaxRunSamples, 0)
    \/ PoseReset

SpecPoseRun == Init /\ [][NextPoseRun]_vars

(***************************************************************************)
(* SpecStill: MotionAnalyzer calls under several stillness thresholds, on  *)
(* frames whose luminance differs by 0, 51 or more, with one resolution    *)
(* change.  init takes any float: a threshold below 0 is one of them.      *)
(***************************************************************************)
StillFrames == {FlatFrame(5, 1, 0), FlatFrame(5, 1, 51), FlatFrame(5, 1, 255),
                FlatFrame(1, 1, 0)}
StillConfigs == {<<-50, 2>>, <<0, 2>>, <<600, 3>>}
StillSteps == {600}
MaxStillSamples == 2
MaxStillClock == 1200

NextStill ==
    \/ \E c \in StillConfigs : MotionInit(c[1], c[2])
    \/ \E f \in StillFrames :
          /\ Len(motion_history_) <= MaxStillSamples
          /\ Analyze(f)
    \/ MotionReset
    \/ \E dt \in StillSteps : SysElapse(dt, MaxStillClock)

SpecStill == Init /\ [][NextStill]_vars

(***************************************************************************)
(* SpecReset: the three components used side by side, each with its reset, *)
(* as the bridge holds them.                                               *)
(***************************************************************************)
ResetFrames == {FrameFar}
ResetBoxes == {BoxTop, BoxLow}
ResetBitmaps == {FlatFrame(5, 1, 0), FlatFrame(5, 1, 255)}
ResetSteps == {600}
MaxResetSamples == 1
\* three frames promote a pose
MaxResetPoseSamples == 3
MaxResetClock == 600

NextReset ==
    \/ \E f \in ResetFrames : UpdateDepthMap(f)
    \/ \E b \in ResetBoxes, s \in RgbSizes :
          /\ Len(position_history_) < MaxResetSamples
          /\ DetectFall(b, s[1], s[2])
    \/ Reset
    \/ \E d \in RunDetections : BoundedUpdate(d, MaxResetPoseSamples, 0)
    \/ PoseReset
    \/ \E f \in ResetBitmaps :
          /\ Len(motion_history_) < MaxResetSamples
          /\ Analyze(f)
    \/ MotionReset
    \/ \E dt \in ResetSteps : SysElapse(dt, MaxResetClock)

SpecReset == Init /\ [][NextReset]_vars

(***************************************************************************)
(* SpecClock: the wall clock of MotionAnalyzer moves forward and is set    *)
(* back; the steady clock of DepthProcessor does not move, so that the     *)
(* samples of a window carry the same millisecond.                         *)
(***************************************************************************)
ClockBitmaps == {FlatFrame(5, 1, 0), FlatFrame(5, 1, 255)}
ClockFrames == {FrameFar}
ClockBoxes == {BoxTop, BoxLow}
ClockSteps == {1000}
MaxClockSamples == 2
MaxWallClock == 2000

NextClock ==
    \/ \E f \in ClockBitmaps :
          /\ Len(motion_history_) < MaxClockSamples
          /\ Analyze(f)
    \/ GetSecondsSinceMotion
    \/ \E dt \in ClockSteps : SysElapse(dt, MaxWallClock)
    \/ \E dt \in ClockSteps : SysStepBack(dt)
    \/ \E f \in ClockFrames : UpdateDepthMap(f)
    \/ \E b \in ClockBoxes, s \in RgbSizes :
          /\ Len(position_history_) < MaxClockSamples
          /\ DetectFall(b, s[1], s[2])

SpecClock == Init /\ [][NextClock]_vars

(***************************************************************************)
(* SpecTie: runs of three raw labels, Unknown among them, each with its    *)
(* own confidence, up to the 10 entries the majority is taken over.        *)
(***************************************************************************)
\* 120 px wide, 100 px high: neither lying, standing nor sitting
DetUnknown == Det(100000, 100000, 220000, 200000, 900, 0)
TieDetections == {<<DetUnknown>>, <<DetStanding>>, <<DetFallenWeak>>}
MaxTieSamples == 10

NextTie ==
    \/ \E d \in TieDetections :
          BoundedUpdate(d, MaxTieSamples, 0)
    \/ PoseReset

SpecTie == Init /\ [][NextTie]_vars

(***************************************************************************)
(* SpecChange: runs of standing and fallen frames long enough for two      *)
(* changes of pose, under a clock that moves, with the queries about the   *)
(* time of the last change.                                                *)
(***************************************************************************)
ChangeSteps == {1000}
ChangeWindows == {1, 2}
MaxChangeSamples == 7
MaxChangeClock == 2000

NextChange ==
    \/ \E d \in RunDetections : BoundedUpdate(d, MaxChangeSamples, 0)
    \/ PoseReset
    \/ \E w \in ChangeWindows : HasPoseChanged(w)
    \/ GetTimeInCurrentPose
    \/ \E dt \in ChangeSteps : SysElapse(dt, MaxChangeClock)

SpecChange == Init /\ [][NextChange]_vars

(***************************************************************************)
(* SpecLatch: a person measured at the top and at the bottom of the frame, *)
(* 300 ms apart (a fall) and more than 1000 ms apart (the window has       *)
(* forgotten the sample before).                                           *)
(***************************************************************************)
LatchBoxes == {BoxTop, BoxBottom}
LatchSteps == {300, 1001}
MaxLatchSamples == 3
MaxLatchClock == 1601

NextLatch ==
    \/ UpdateDepthMap(FrameFar)
    \/ \E b \in LatchBoxes, s \in RgbSizes :
          /\ Len(position_history_) < MaxLatchSamples
          /\ DetectFall(b, s[1], s[2])
    \/ Reset
    \/ \E dt \in LatchSteps : Elapse(dt, MaxLatchClock)

SpecLatch == Init /\ [][NextLatch]_vars

(***************************************************************************)
(* Properties.                                                             *)
(***************************************************************************)
\* the last n entries of q
LastN(q, n) == SubSeq(q, Max(1, Len(q) - n + 1), Len(q))

\* the entries of window h pushed at most horizon ms before t
NotOlderThan(h, t, horizon) ==
    LET Recent(e) == t - e.timestamp_ms <= horizon IN SelectSeq(h, Recent)

\* a step that is a call of detectFall (every other call names itself in
\* ret, and the clock does not move during a call)
DetectFallStep == now' = now /\ ret'.op = "detectFall"
AnalyzeMotionStep == now' = now /\ ret'.op = "analyzeMotion"
UpdateDepthMapStep == now' = now /\ ret'.op = "updateDepthMap"
AnalyzeStep == sys_now' = sys_now /\ ret'.op = "analyze"

\* C1: every detectFall call that appends a sample leaves at most 30 entries
\* in the position history, none of them more than 1000 ms older than the
\* entry just pushed; what it leaves is exactly the last 30 of the old
\* entries at most 1000 ms old (one exactly 1000 ms old included) followed
\* by the new entry.
C1_PositionWindowBounded ==
    [][(DetectFallStep /\ ret'.pushed) =>
          /\ Len(position_history_') <= 30
          /\ \A i \in 1..Len(position_history_') :
                now - position_history_'[i].timestamp_ms <= 1000
          /\ position_history_' =
                LastN(NotOlderThan(
                          Append(position_history_,
                                 [position |-> ret'.pos,
                                  timestamp_ms |-> now]),
                          now, 1000),
                      30)]_vars

\* C1 witness: a push into a full window that has already evicted entries
\* and whose oldest entry is exactly 1000 ms old
C1_Witness ==
    /\ ret.op = "detectFall" /\ ret.pushed
    /\ fed.evicted
    /\ Len(position_history_) = 30
    /\ position_history_[30].timestamp_ms = now
    /\ position_history_[1].timestamp_ms = now - 1000

\* C2 as claimed: after an analyze call that pushes a motion sample, no
\* retained motion sample is more than 1000 ms older than the one pushed.
C2_MotionHorizon ==
    (ret.op = "analyze" /\ ret.pushed /\ motion_pushed_at # <<>>) =>
        \A i \in 1..Len(motion_pushed_at) :
            motion_pushed_at[Len(motion_pushed_at)] - motion_pushed_at[i]
                <= 1000

\* C2 as amended: the motion window is bounded by count alone.  For
\* history_frames_ >= 1, an analyze call that pushes a sample leaves the
\* last history_frames_ - 1 of the old samples, whatever their age,
\* followed by the new one, and returns their average as motion_level.
C2_MotionWindowByCount ==
    [][(AnalyzeStep /\ ret'.pushed /\ history_frames_ >= 1) =>
          /\ Len(motion_history_') = Min(Len(motion_history_) + 1,
                                         history_frames_)
          /\ SubSeq(motion_history_', 1, Len(motion_history_') - 1)
                = LastN(motion_history_, Len(motion_history_') - 1)
          /\ motion_pushed_at'[Len(motion_pushed_at')] = sys_now
          /\ ret'.value.motion_level =
                FloatDiv(SumSeq(motion_history_'), Len(motion_history_'))]_vars

\* C2 witness: a full motion window that still holds a sample pushed more
\* than 1000 ms before the newest one
C2_Witness ==
    /\ ret.op = "analyze" /\ ret.pushed
    /\ Len(motion_history_) = history_frames_
    /\ motion_pushed_at[Len(motion_pushed_at)] - motion_pushed_at[1] > 1000

\* C3: every sample stored in the position history has z > 0.
C3_HistoryHasDepth ==
    \A i \in 1..Len(position_history_) : position_history_[i].position.z > 0

\* C3 witness: detectFall met the z = 0 sentinel on a processor that holds
\* depth data and a non-empty history
C3_Witness ==
    /\ ret.op = "detectFall"
    /\ hasDepthData
    /\ ret.pos.z = 0
    /\ position_history_ # <<>>

\* C4: a detectFall call whose position is unmeasurable (z <= 0), or that is
\* made before any depth frame was accepted, changes neither the position
\* history nor last_position_ nor last_distance_, and returns
\* fall_detected = false with drop, velocity, height and confidence 0.
C4_UnmeasuredIsNoOp ==
    [][(DetectFallStep /\ (~hasDepthData \/ ret'.pos.z <= 0)) =>
          /\ position_history_' = position_history_
          /\ last_position_' = last_position_
          /\ last_distance_' = last_distance_
          /\ ret'.pushed = FALSE
          /\ ret'.value.fall_detected = FALSE
          /\ ret'.value.vertical_drop_meters = 0
          /\ ret'.value.drop_velocity_ms.num = 0
          /\ ret'.value.current_height_meters = 0
          /\ ret'.value.confidence = 0]_vars

\* C4 witness: an unmeasurable detectFall call on a processor that holds a
\* last measurement and a non-empty history
C4_Witness ==
    /\ ret.op = "detectFall"
    /\ hasDepthData
    /\ ret.pos.z <= 0
    /\ last_position_.z > 0
    /\ last_distance_ > 0
    /\ position_history_ # <<>>

\* C5 as claimed: an analyzeMotion call whose estimated position is the
\* z = 0 sentinel leaves last_position_ and last_distance_ unchanged.
C5_SentinelKeepsLastMeasurement ==
    [][(AnalyzeMotionStep /\ ret'.pos.z <= 0) =>
          /\ last_position_' = last_position_
          /\ last_distance_' = last_distance_]_vars

\* C6: for every detectFall call with a valid position, fall_detected holds
\* exactly when vertical_drop > 0.5 m and drop_velocity > 1.5 m/s, and then
\* the confidence is 0.9; with only vertical_drop > 0.5 m the confidence is
\* 0.3; otherwise it is 0.0.
C6_FallDecisionTable ==
    (ret.op = "detectFall" /\ ret.pushed) =>
        LET r == ret.value
            drop == r.vertical_drop_meters > 500
            fast == 2 * r.drop_velocity_ms.num > 3 * r.drop_velocity_ms.den
        IN /\ r.fall_detected <=> (drop /\ fast)
           /\ (drop /\ fast) => r.confidence = 900
           /\ (drop /\ ~fast) => r.confidence = 300
           /\ ~drop => r.confidence = 0
           /\ r.confidence \in {0, 300, 900}
           /\ r.fall_detected <=> r.confidence = 900

\* C6 witness: a descent of more than 0.5 m at a positive velocity of at
\* most 1.5 m/s, reported with confidence 0.3
C6_Witness ==
    /\ ret.op = "detectFall" /\ ret.pushed
    /\ ret.value.vertical_drop_meters > 500
    /\ ret.value.drop_velocity_ms.num > 0
    /\ ret.value.confidence = 300
    /\ ~ret.value.fall_detected

\* the run of samples fed since reset(): its y span and its time span
FedSpanY == position_history_[Len(position_history_)].position.y - fed.first_y
FedSpanMs ==
    position_history_[Len(position_history_)].timestamp_ms - fed.first_ts

\* C7 as claimed: from an empty window, two or more valid positions with
\* strictly increasing y, spanning more than 0.5 m in less than 330 ms
\* (0 ms included), end with fall_detected = true and confidence 0.9.
C7_FastDropIsFall ==
    (/\ ret.op = "detectFall" /\ ret.pushed
     /\ fed.n = 2 /\ fed.increasing
     /\ FedSpanY > 500
     /\ FedSpanMs < 330) =>
        ret.value.fall_detected /\ ret.value.confidence = 900

\* C7 as amended: from an empty window, two to 30 valid positions with
\* strictly increasing y, spanning more than 0.5 m in more than 0 ms and
\* less than 330 ms, end with fall_detected = true and confidence 0.9.
C7_FastDropOverPositiveTimeIsFall ==
    (/\ ret.op = "detectFall" /\ ret.pushed
     /\ fed.n = 2 /\ fed.increasing /\ ~fed.evicted
     /\ FedSpanY > 500
     /\ FedSpanMs > 0
     /\ FedSpanMs < 330) =>
        ret.value.fall_detected /\ ret.value.confidence = 900

\* C7 witness: three samples, each lower than the one before, 0.58 m in
\* 300 ms
C7_Witness ==
    /\ ret.op = "detectFall" /\ ret.pushed
    /\ fed.n = 2 /\ fed.increasing /\ ~fed.evicted
    /\ Len(position_history_) = 3
    /\ FedSpanY > 500
    /\ FedSpanMs = 300
    /\ ret.value.fall_detected

\* C8 as claimed: a strictly increasing run of y-positions whose total drop
\* of more than 0.5 m is spread over 5 s ends with fall_detected = false
\* and confidence 0.3.
C8_SlowDropIsAmbiguous ==
    (/\ ret.op = "detectFall" /\ ret.pushed
     /\ fed.n = 2 /\ fed.increasing
     /\ FedSpanY > 500
     /\ FedSpanMs = 5000) =>
        ~ret.value.fall_detected /\ ret.value.confidence = 300

\* C8 as amended: at the end of such a run the result is decided by the
\* samples the window retains, all of them at most 1000 ms old: confidence
\* 0.3 exactly when the drop across them exceeds 0.5 m at no more than
\* 1.5 m/s, confidence 0.0 when that drop is at most 0.5 m, and
\* fall_detected exactly when it exceeds 0.5 m at more than 1.5 m/s.
C8_SlowDropDecidedByWindow ==
    (/\ ret.op = "detectFall" /\ ret.pushed
     /\ fed.n = 2 /\ fed.increasing
     /\ FedSpanY > 500
     /\ FedSpanMs = 5000) =>
        LET h == position_history_
            newest == h[Len(h)]
            drop == newest.position.y - h[1].position.y
            ms == newest.timestamp_ms - h[1].timestamp_ms
            fast == ms > 0 /\ 2 * drop > 3 * ms
        IN /\ \A i \in 1..Len(h) :
                 newest.timestamp_ms - h[i].timestamp_ms <= 1000
           /\ ret.value.vertical_drop_meters = drop
           /\ ret.value.confidence = 300 <=> (drop > 500 /\ ~fast)
           /\ ret.value.confidence = 0 <=> drop <= 500
           /\ ret.value.fall_detected <=> (drop > 500 /\ fast)

\* C8 witness: a 5 s run whose last 500 ms hold a drop of 0.54 m, reported
\* with confidence 0.3
C8_Witness ==
    /\ ret.op = "detectFall" /\ ret.pushed
    /\ fed.n = 2 /\ fed.increasing
    /\ FedSpanY > 500
    /\ FedSpanMs = 5000
    /\ Len(position_history_) = 2
    /\ ret.value.confidence = 300

\* C9: an updateDepthMap call on an unconfigured processor adopts the
\* frame's dimensions, sets the principal point to (width/2, height/2) and
\* stores the frame; on a configured processor a frame of the configured
\* size replaces the stored grid and nothing else; a frame of another size
\* changes nothing.  No call touches the history or the last measurement.
C9_DepthMapIsLastAccepted ==
    [][UpdateDepthMapStep =>
          LET frame == ret'.arg IN
          /\ IF ~initialized_
             THEN /\ initialized_'
                  /\ width_' = frame.width
                  /\ height_' = frame.height
                  /\ 2 * principal_x_' = frame.width * 1000
                  /\ 2 * principal_y_' = frame.height * 1000
                  /\ depth_map_' = frame.data
             ELSE IF frame.width = width_ /\ frame.height = height_
             THEN /\ depth_map_' = frame.data
                  /\ UNCHANGED <<initialized_, width_, height_,
                                 principal_x_, principal_y_>>
             ELSE UNCHANGED <<initialized_, width_, height_, depth_map_,
                              principal_x_, principal_y_>>
          /\ UNCHANGED <<position_history_, last_position_,
                         last_distance_>>]_vars

\* C9 witness: a frame of another size was refused by a processor that
\* holds a frame and a history
C9_Witness ==
    /\ ret.op = "updateDepthMap"
    /\ initialized_
    /\ (ret.arg.width # width_ \/ ret.arg.height # height_)
    /\ depth_map_ # ret.arg.data
    /\ position_history_ # <<>>

\* C10: getDepthAt(x, y) returns -1 when the processor is unconfigured,
\* when (x, y) is outside [0,width) x [0,height), and when the raw sample
\* is 0 or 0xFFFF; for every other raw sample r it returns r/1000 metres;
\* it never returns 0 or 65.535.
C10_GetDepthAt ==
    ret.op = "getDepthAt" =>
        LET x == ret.arg[1]
            y == ret.arg[2]
        IN /\ ret.value # 0
           /\ ret.value # 65535
           /\ IF ~initialized_ \/ x < 0 \/ x >= width_ \/ y < 0 \/ y >= height_
              THEN ret.value = -1000
              ELSE LET r == depth_map_[y * width_ + x + 1] IN
                   IF r = 0 \/ r = 65535 THEN ret.value = -1000
                   ELSE 1000 * ret.value = 1000 * r

\* C10 witness: getDepthAt read a 0xFFFF sample inside the frame
C10_Witness ==
    /\ ret.op = "getDepthAt"
    /\ initialized_
    /\ ret.arg[1] \in 0..(width_ - 1)
    /\ ret.arg[2] \in 0..(height_ - 1)
    /\ depth_map_[ret.arg[2] * width_ + ret.arg[1] + 1] = 65535
    /\ ret.value = -1000

(***************************************************************************)
(* Properties of the depth queries.  The readings are taken from the       *)
(* stored grid and sorted here, independently of the operators above.      *)
(***************************************************************************)
\* the stored raw sample of pixel p, and whether it is a measurement
RawAt(p) == depth_map_[p[2] * width_ + p[1] + 1]
Measured(p) == RawAt(p) # 0 /\ RawAt(p) # 65535

RECURSIVE SortedReadings(_)
\* the raw samples of the pixels P in non-decreasing order
SortedReadings(P) ==
    IF P = {} THEN <<>>
    ELSE LET least == CHOOSE p \in P : \A q \in P : RawAt(p) <= RawAt(q)
         IN <<RawAt(least)>> \o SortedReadings(P \ {least})

\* the element at index floor(n/2), counted from 0, of the sorted readings
MiddleReading(P) == SortedReadings(P)[Len(SortedReadings(P)) \div 2 + 1]

\* the measured pixels of the frame inside the normalised box bbox
BoxMeasured(bbox) ==
    IF ~hasDepthData THEN {}
    ELSE LET x1 == Max(0, Min((bbox.x * width_) \div 1000, width_ - 1))
             y1 == Max(0, Min((bbox.y * height_) \div 1000, height_ - 1))
             x2 == Max(0, Min(((bbox.x + bbox.width) * width_) \div 1000,
                              width_ - 1))
             y2 == Max(0, Min(((bbox.y + bbox.height) * height_) \div 1000,
                              height_ - 1))
         IN {p \in (x1..x2) \X (y1..y2) : Measured(p)}

\* the depth-space pixel centre (u, v) of the normalised box bbox
DepthCenter(bbox) ==
    <<((2 * bbox.x + bbox.width) * width_) \div 2000,
      ((2 * bbox.y + bbox.height) * height_) \div 2000>>

\* the measured pixels of the frame at most half pixels away, in x and in
\* y, from the centre of bbox
WindowMeasured(bbox, half) ==
    IF ~hasDepthData THEN {}
    ELSE LET c == DepthCenter(bbox)
         IN {p \in (Max(0, c[1] - half)..Min(width_ - 1, c[1] + half))
                     \X (Max(0, c[2] - half)..Min(height_ - 1, c[2] + half)) :
                Measured(p)}

\* a call that estimated the position of a box
EstimatedPosition == ret.op = "detectFall" \/ ret.op = "analyzeMotion"

\* C11: calculateStats on a box with no valid depth pixel, or on an
\* unconfigured processor, returns valid_pixels = 0 and min, max, mean and
\* median 0; when valid_pixels > 0 the median is the element at index
\* floor(n/2) of the sorted valid readings and min <= median <= max; and
\* valid_pixels <= total_pixels always.
C11_StatsOfBox ==
    ret.op = "calculateStats" =>
        LET stats == ret.value
            P == BoxMeasured(ret.arg)
        IN /\ stats.valid_pixels <= stats.total_pixels
           /\ stats.valid_pixels = Cardinality(P)
           /\ P = {} =>
                 /\ stats.valid_pixels = 0
                 /\ stats.min_meters = 0 /\ stats.max_meters = 0
                 /\ stats.mean_meters = 0 /\ stats.median_meters = 0
           /\ P # {} =>
                 /\ stats.valid_pixels > 0
                 /\ stats.median_meters = MiddleReading(P)
                 /\ stats.min_meters <= stats.median_meters
                 /\ stats.median_meters <= stats.max_meters

\* C11 witness: calculateStats on a box of a configured processor all of
\* whose pixels are unmeasured
C11_Witness ==
    /\ ret.op = "calculateStats"
    /\ hasDepthData
    /\ ret.value.total_pixels > 0
    /\ ret.value.valid_pixels = 0
    /\ ret.value.median_meters = 0

\* C12 as claimed: the depth sampled by estimate3DPosition is the median of
\* the valid pixels of the 5x5 window centred on the depth-space centre of
\* the box, so that no pixel outside that window influences it.
C12_FiveByFiveWindow ==
    (EstimatedPosition /\ WindowMeasured(ret.arg, 2) # {}) =>
        ret.pos.z = MiddleReading(WindowMeasured(ret.arg, 2))

\* C13: estimate3DPosition returns the sentinel (0,0,0) exactly when the
\* processor has no depth data or neither the point window nor the bounding
\* box holds a valid depth pixel; when only the box holds one, the depth of
\* the position is the box median and z > 0.
C13_SentinelIffNoDepth ==
    EstimatedPosition =>
        LET window == WindowMeasured(ret.arg, 5)
            box == BoxMeasured(ret.arg)
        IN /\ ret.pos = [x |-> 0, y |-> 0, z |-> 0]
                <=> (~hasDepthData \/ (window = {} /\ box = {}))
           /\ (window = {} /\ box # {}) =>
                 /\ ret.pos.z = MiddleReading(box)
                 /\ ret.pos.z > 0

\* C13 witness: a box whose point window holds no valid pixel while the
\* box itself does
C13_Witness ==
    /\ EstimatedPosition
    /\ WindowMeasured(ret.arg, 5) = {}
    /\ BoxMeasured(ret.arg) # {}
    /\ ret.pos.z > 0

\* the depth d that estimate3DPosition samples for bbox
SampledDepth(bbox) ==
    IF WindowMeasured(bbox, 5) # {} THEN MiddleReading(WindowMeasured(bbox, 5))
    ELSE MiddleReading(BoxMeasured(bbox))

\* C14: for a valid depth d and depth-space pixel centre (u, v), the
\* position (x, y, z) has z = d, and u' = x * focal_x / z + principal_x,
\* v' = y * focal_y / z + principal_y are (u, v) to within rounding (here
\* 0.05 pixel: x and y are held to the millimetre, at depths of 7 m and
\* more).
C14_PinholeRoundTrip ==
    (EstimatedPosition /\ ret.pos.z > 0) =>
        LET c == DepthCenter(ret.arg)
            pos == ret.pos
        IN /\ pos.z = SampledDepth(ret.arg)
           /\ Abs(pos.x * focal_length_x_ * 1000 + principal_x_ * pos.z
                  - c[1] * 1000 * pos.z) <= 50 * pos.z
           /\ Abs(pos.y * focal_length_y_ * 1000 + principal_y_ * pos.z
                  - c[2] * 1000 * pos.z) <= 50 * pos.z

\* C14 witness: a position estimated off the optical axis, in x and in y
C14_Witness ==
    /\ EstimatedPosition
    /\ ret.pos.z > 0
    /\ ret.pos.x < 0
    /\ ret.pos.y < 0

(***************************************************************************)
(* Properties of the subject of a tick and of its pose.                    *)
(***************************************************************************)
\* C15 as claimed: the depth path of a tick runs on the box of the
\* highest-confidence person detection, the one the pose classifier uses,
\* and does not run at all when the list holds no person.
C15_DepthSubjectIsBestPerson ==
    (tick.stage = "analyzeMotion" /\ ret.op = "detectFall") =>
        LET person == FindPerson(tick.detections, 1, 0, 0)
        IN /\ person # 0
           /\ ret.arg = PersonBBox(tick.detections[person],
                                   tick.width, tick.height)

\* the label of the claimed priority list, for a box of aspect
\* box_width / box_height whose midpoint y, in thousandths of the frame
\* height, is center
ClaimedPose(box_width, box_height, center) ==
    IF box_width > 2 * box_height /\ center > 700 THEN FALLEN
    ELSE IF 2 * box_width > 3 * box_height THEN LYING
    ELSE IF 2 * box_width < box_height THEN STANDING
    ELSE IF box_width < box_height /\ center > 400 THEN SITTING
    ELSE IF 10 * box_width < 7 * box_height THEN STANDING
    ELSE UNKNOWN

\* C16 as claimed: the raw label of a tick's person is given by the
\* priority list over aspect = width / max(height, 1.0) and the box
\* midpoint y in normalised [0,1] frame coordinates.
C16_RawPoseFromNormalisedCenter ==
    (ret.op = "detectMotionWithDepth" /\ ret.pushed) =>
        LET det == ret.arg[ret.value.person]
        IN /\ pose_history_[Len(pose_history_)].pose = ret.value.estimated
           /\ ret.value.estimated =
                 ClaimedPose(det.x2 - det.x1, Max(det.y2 - det.y1, 1000),
                             (det.y1 + det.y2) \div (2 * tick.height))

(***************************************************************************)
(* Properties of the stabilised pose.  The labels are counted here over    *)
(* the stored history, independently of the operators above.               *)
(***************************************************************************)
\* how often label L occurs among the most recent min(10, size) entries
LabelCount(h, L) ==
    Cardinality({k \in DOMAIN LastN(h, 10) : LastN(h, 10)[k].pose = L})

RECURSIVE ConfidenceOf(_, _)
\* the sum of the confidences of the entries of q labelled L
ConfidenceOf(q, L) ==
    IF q = <<>> THEN 0
    ELSE (IF Head(q).pose = L THEN Head(q).confidence ELSE 0)
         + ConfidenceOf(Tail(q), L)

\* L is a most frequent label among the recent entries of h
IsMajority(h, L) ==
    /\ LabelCount(h, L) > 0
    /\ \A K \in 0..4 : LabelCount(h, K) <= LabelCount(h, L)

\* count >= 5, or count >= 3 with an average confidence above 0.7
Qualifies(h, L) ==
    \/ LabelCount(h, L) >= 5
    \/ /\ LabelCount(h, L) >= 3
       /\ ConfidenceOf(LastN(h, 10), L) > 700 * LabelCount(h, L)

\* a step that is a call of PoseEstimator::update
UpdateStep == sys_now' = sys_now /\ ret'.op = "update"

\* C17: on a tick with a person the current pose changes only to a majority
\* label of the most recent min(10, size) raw entries whose count is >= 5,
\* or >= 3 with an average confidence strictly above 0.7; when no majority
\* label passes that test, the current pose, the previous pose and the
\* change timestamp are what they were before the tick.
C17_PromotionThreshold ==
    [][(UpdateStep /\ ret'.pushed) =>
          /\ current_pose_' # current_pose_ =>
                /\ IsMajority(pose_history_', current_pose_')
                /\ Qualifies(pose_history_', current_pose_')
          /\ (~\E L \in 0..4 : /\ IsMajority(pose_history_', L)
                               /\ Qualifies(pose_history_', L)) =>
                /\ current_pose_' = current_pose_
                /\ previous_pose_' = previous_pose_
                /\ last_pose_change_time_' = last_pose_change_time_]_vars

\* C17 witness: Fallen is the majority label with a count of 3 or 4 and an
\* average confidence of at most 0.7, and is not the current pose
C17_Witness ==
    /\ ret.op = "update" /\ ret.pushed
    /\ IsMajority(pose_history_, 4)
    /\ LabelCount(pose_history_, 4) >= 3
    /\ ~Qualifies(pose_history_, 4)
    /\ current_pose_ # 4

\* C18 as claimed: after 5 consecutive ticks whose person box has the raw
\* label Fallen and confidence 0.8, the current pose is Fallen, whatever
\* was pushed before them.
C18_FiveFallenTicks ==
    (/\ Len(pose_history_) >= 5
     /\ \A k \in (Len(pose_history_) - 4)..Len(pose_history_) :
           /\ pose_history_[k].pose = 4
           /\ pose_history_[k].confidence = 800) =>
        current_pose_ = 4

\* C18: after 5 consecutive ticks whose person box has the raw label Fallen
\* and confidence 0.8, the current pose is Fallen, provided every other
\* label occurs strictly less often than Fallen among the last 10 entries.
C18_FiveFallenTicksWithoutTie ==
    (/\ Len(pose_history_) >= 5
     /\ \A k \in (Len(pose_history_) - 4)..Len(pose_history_) :
           /\ pose_history_[k].pose = 4
           /\ pose_history_[k].confidence = 800
     /\ \A L \in 0..3 :
           LabelCount(pose_history_, L) < LabelCount(pose_history_, 4)) =>
        current_pose_ = 4

\* C18 witness: five Fallen ticks after four Standing ones, the pose
\* changed from Standing to Fallen
C18_Witness ==
    /\ ret.op = "update"
    /\ Len(pose_history_) = 9
    /\ \A k \in 1..4 : pose_history_[k].pose = 3
    /\ \A k \in 5..9 : /\ pose_history_[k].pose = 4
                        /\ pose_history_[k].confidence = 800
    /\ current_pose_ = 4
    /\ previous_pose_ = 3

\* every entry of h is Standing, but for at most one that is Fallen
StandingButOne(h) ==
    /\ \A k \in DOMAIN h : h[k].pose = 3 \/ h[k].pose = 4
    /\ Cardinality({k \in DOMAIN h : h[k].pose = 4}) <= 1

\* C19: a label that occurs fewer than 3 times among the last 10 entries
\* never becomes the current pose; and while the current pose is Standing
\* and the raw labels are Standing but for a single Fallen frame, the
\* current pose stays Standing, on the tick of that frame and on every
\* later one.
C19_SingleFrameIsIgnored ==
    [][(UpdateStep /\ ret'.pushed) =>
          /\ current_pose_' # current_pose_ =>
                LabelCount(pose_history_', current_pose_') >= 3
          /\ (current_pose_ = 3 /\ StandingButOne(pose_history_')) =>
                current_pose_' = 3]_vars

\* C19 witness: the tick of the single Fallen frame, after ten Standing
\* ones, with the current pose still Standing
C19_Witness ==
    /\ ret.op = "update" /\ ret.pushed
    /\ ret.value.estimated = 4
    /\ Len(pose_history_) >= 11
    /\ StandingButOne(pose_history_)
    /\ pose_history_[Len(pose_history_)].pose = 4
    /\ current_pose_ = 3

\* no class_id 0 entry with confidence > 0
NoPersonIn(detections) ==
    \A i \in DOMAIN detections :
        ~(detections[i].class_id = 0 /\ detections[i].confidence > 0)

\* C20: an update tick without a person detection multiplies the pose
\* confidence by 0.95 (to the nearest thousandth) and changes nothing
\* else: the current pose, the previous pose, the pose history and the
\* change timestamps stay, and the confidence does not increase.
C20_NoPersonDecays ==
    [][(UpdateStep /\ NoPersonIn(ret'.arg)) =>
          /\ Abs(100 * pose_confidence_' - 95 * pose_confidence_) <= 50
          /\ pose_confidence_' <= pose_confidence_
          /\ current_pose_' = current_pose_
          /\ previous_pose_' = previous_pose_
          /\ pose_history_' = pose_history_
          /\ last_pose_change_time_' = last_pose_change_time_
          /\ pose_start_time_' = pose_start_time_
          /\ UNCHANGED <<depthVars, motionVars>>]_vars

\* C20 witness: two ticks without a person in a row, the pose Fallen kept
\* and its confidence decayed twice
C20_Witness ==
    /\ ret.op = "update" /\ ~ret.pushed
    /\ no_person_run = 2
    /\ current_pose_ = 4
    /\ pose_history_ # <<>>
    /\ pose_confidence_ > 0
    /\ pose_confidence_ < 760

\* an analyze call that finds no stored baseline of the frame's size: the
\* first call after reset, or a resolution change
BaselineOnly(frame) ==
    \/ prev_frame_ = <<>>
    \/ prev_width_ # frame.width
    \/ prev_height_ # frame.height

\* every entry of window q is v
AllSamples(q, v) == \A i \in 1..Len(q) : q[i] = v

\* the average of window q, in thousandths
WindowAverage(q) == FloatDiv(SumSeq(q), Len(q))

\* every sampled pixel (stride 4 in both axes) of current differs from the
\* same pixel of previous by at least by/1000 of luminance
EverySampleDiffers(current, previous, width, height, by) ==
    \A x \in Sampled(width), y \in Sampled(height) :
       Abs(Luminance(current, (y * width + x) * 4)
           - Luminance(previous, (y * width + x) * 4)) >= by

\* C21: an analyze call that is the first after reset, or whose width or
\* height differ from the stored baseline's, only stores the frame as the
\* new baseline: it returns motion_level 0, is_still true and
\* stillness_duration 0, sets the last-motion time and the stillness-window
\* start to now, and pushes no sample into the motion history.
C21_BaselineOnly ==
    [][AnalyzeStep /\ BaselineOnly(ret'.arg) =>
          /\ ret'.value.motion_level = 0
          /\ ret'.value.is_still
          /\ ret'.value.stillness_duration = 0
          /\ last_motion_time_' = sys_now
          /\ stillness_start_time_' = sys_now
          /\ ~ret'.pushed
          /\ motion_history_' = motion_history_
          /\ prev_frame_' = ret'.arg.pixels
          /\ prev_width_' = ret'.arg.width
          /\ prev_height_' = ret'.arg.height]_vars

\* C21 witness: a resolution change, later than time 0, with samples of the
\* old resolution still in the window
C21_Witness ==
    /\ ret.op = "analyze"
    /\ ~ret.pushed
    /\ ret.arg.width = 1
    /\ motion_history_ # <<>>
    /\ sys_now > 0
    /\ stillness_start_time_ = sys_now
    /\ ret.value.is_still

\* C22 as stated: a frame identical to the stored baseline returns
\* motion_level 0 and is_still true in every state of the analyzer.
C22_IdenticalFrameIsStill ==
    [][AnalyzeStep /\ ~BaselineOnly(ret'.arg)
          /\ ret'.arg.pixels = prev_frame_ =>
          /\ ret'.value.motion_level = 0
          /\ ret'.value.is_still]_vars

\* C22: a frame identical to the stored baseline pushes the sample 0; the
\* call returns the average of the smoothing window after the push, which is
\* 0, with is_still true under a threshold of at least 0, when every sample
\* the window keeps is 0.
C22_IdenticalFramePushesZero ==
    [][AnalyzeStep /\ ~BaselineOnly(ret'.arg)
          /\ ret'.arg.pixels = prev_frame_ =>
          /\ ret'.pushed
          /\ motion_history_'[Len(motion_history_')] = 0
          /\ ret'.value.motion_level = WindowAverage(motion_history_')
          /\ (AllSamples(motion_history_', 0) /\ stillness_threshold_ >= 0 =>
                /\ ret'.value.motion_level = 0
                /\ ret'.value.is_still)]_vars

\* C22 witness: the second identical frame in a row, reported still
C22_Witness ==
    /\ ret.op = "analyze"
    /\ ret.pushed
    /\ ret.arg.pixels = prev_frame_
    /\ Len(motion_history_) >= 2
    /\ AllSamples(motion_history_, 0)
    /\ stillness_threshold_ >= 0
    /\ ret.value.motion_level = 0
    /\ ret.value.is_still

\* C23 as stated: a frame whose every sampled pixel differs from the
\* baseline by at least 51 returns motion_level 1.0 and is_still false in
\* every state of the analyzer.
C23_FullChangeIsFullMotion ==
    [][AnalyzeStep /\ ~BaselineOnly(ret'.arg)
          /\ EverySampleDiffers(ret'.arg.pixels, prev_frame_,
                                ret'.arg.width, ret'.arg.height, 51000) =>
          /\ ret'.value.motion_level = 1000
          /\ ~ret'.value.is_still]_vars

\* C23: a frame whose every sampled pixel differs from the baseline by at
\* least 51 pushes the sample 1.0; the call returns the average of the
\* smoothing window after the push, which is 1.0, with is_still false under
\* a threshold below 1.0, when every sample the window keeps is 1.0.
C23_FullChangePushesOne ==
    [][AnalyzeStep /\ ~BaselineOnly(ret'.arg)
          /\ EverySampleDiffers(ret'.arg.pixels, prev_frame_,
                                ret'.arg.width, ret'.arg.height, 51000) =>
          /\ ret'.pushed
          /\ motion_history_'[Len(motion_history_')] = 1000
          /\ ret'.value.motion_level = WindowAverage(motion_history_')
          /\ (AllSamples(motion_history_', 1000)
              /\ stillness_threshold_ < 1000 =>
                /\ ret'.value.motion_level = 1000
                /\ ~ret'.value.is_still)]_vars

\* C23 witness: the frame of luminance 51 after a black baseline, in a
\* window that holds nothing but full changes
C23_Witness ==
    /\ ret.op = "analyze"
    /\ ret.pushed
    /\ ret.arg = FlatFrame(5, 1, 51)
    /\ Len(motion_history_) >= 2
    /\ AllSamples(motion_history_, 1000)
    /\ ret.value.motion_level = 1000
    /\ ~ret.value.is_still

\* C24 as stated: over any run of consecutive still ticks the last-motion
\* time and the stillness-window start are unchanged and the reported
\* stillness_duration is now - stillness-window start.
C24_StillRunKeepsClock ==
    [][AnalyzeStep /\ ret.op = "analyze" /\ ret.value.is_still
          /\ ret'.value.is_still =>
          /\ UNCHANGED <<last_motion_time_, stillness_start_time_>>
          /\ ret'.value.stillness_duration
               = sys_now - stillness_start_time_]_vars

\* C24: on an analyze tick that compares the frame with a baseline, under a
\* clock that does not go back: when motion is detected (smoothed level >
\* threshold) the last-motion time and the stillness-window start become now
\* and the reported stillness_duration is 0; otherwise the two timestamps
\* are unchanged, the reported stillness_duration is now - stillness-window
\* start, and it is not less than the duration the tick before reported.
C24_StillnessClock ==
    [][AnalyzeStep /\ ret'.pushed =>
          IF ret'.value.motion_level > stillness_threshold_
          THEN /\ last_motion_time_' = sys_now
               /\ stillness_start_time_' = sys_now
               /\ ret'.value.stillness_duration = 0
               /\ ~ret'.value.is_still
          ELSE /\ UNCHANGED <<last_motion_time_, stillness_start_time_>>
               /\ ret'.value.stillness_duration
                    = sys_now - stillness_start_time_
               /\ ret'.value.is_still
               /\ (ret.op = "analyze" =>
                     ret'.value.stillness_duration
                       >= ret.value.stillness_duration)]_vars

\* C24 witness: the second still tick of a run, 1200 ms after the window's
\* start
C24_Witness ==
    /\ ret.op = "analyze"
    /\ ret.pushed
    /\ ret.value.is_still
    /\ Len(motion_history_) >= 2
    /\ stillness_start_time_ = 0
    /\ ret.value.stillness_duration = 1200

\* C25 as stated: every MotionState returned by analyze has is_still <=>
\* motion_level <= stillness_threshold, for every configured threshold and
\* including the baseline-only return.
C25_StillIffBelowAnyThreshold ==
    ret.op = "analyze" =>
       (ret.value.is_still <=>
          ret.value.motion_level <= stillness_threshold_)

\* C25: under a stillness threshold of at least 0, every MotionState
\* returned by analyze, the baseline-only return included, has is_still <=>
\* motion_level <= stillness_threshold.
C25_StillIffBelowThreshold ==
    ret.op = "analyze" /\ stillness_threshold_ >= 0 =>
       (ret.value.is_still <=>
          ret.value.motion_level <= stillness_threshold_)

\* C25 witness: a smoothed level equal to the threshold, reported still
C25_Witness ==
    /\ ret.op = "analyze"
    /\ ret.pushed
    /\ ret.value.motion_level = stillness_threshold_
    /\ ret.value.is_still


\* a step that is a call of reset() on one of the components
DepthResetStep == now' = now /\ sys_now' = sys_now /\ ret'.op = "reset"
PoseResetStep == now' = now /\ sys_now' = sys_now /\ ret'.op = "poseReset"
MotionResetStep == now' = now /\ sys_now' = sys_now /\ ret'.op = "motionReset"

\* the fields of each component, without the observation of the last call
DepthFields ==
    <<initialized_, width_, height_, depth_map_, principal_x_, principal_y_,
      position_history_, last_position_, last_distance_, bed_center_,
      bed_radius_>>
PoseFields ==
    <<current_pose_, previous_pose_, pose_confidence_, pose_start_time_,
      last_pose_change_time_, pose_history_>>
MotionFields ==
    <<stillness_threshold_, history_frames_, prev_frame_, prev_width_,
      prev_height_, motion_history_, current_motion_level_,
      last_motion_time_, stillness_start_time_>>

\* C26: reset() is idempotent on DepthProcessor, PoseEstimator and
\* MotionAnalyzer.  Every reset leaves the history windows empty, the last
\* position and distance zero, the current and previous pose Unknown, the
\* pose confidence 0, the smoothed motion level 0 and no stored baseline;
\* a reset that directly follows a reset of the same component, at the same
\* clock reading, changes no field of that component.
C26_ResetIdempotent ==
    [][/\ DepthResetStep =>
             /\ position_history_' = <<>>
             /\ last_position_' = ZeroPosition
             /\ last_distance_' = 0
             /\ (ret'.arg = "reset" => UNCHANGED DepthFields)
       /\ PoseResetStep =>
             /\ pose_history_' = <<>>
             /\ current_pose_' = UNKNOWN
             /\ previous_pose_' = UNKNOWN
             /\ pose_confidence_' = 0
             /\ (ret'.arg = "poseReset" /\ pose_start_time_ = sys_now
                    => UNCHANGED PoseFields)
       /\ MotionResetStep =>
             /\ motion_history_' = <<>>
             /\ current_motion_level_' = 0
             /\ prev_frame_' = <<>>
             /\ (ret'.arg = "motionReset" /\ stillness_start_time_ = sys_now
                    => UNCHANGED MotionFields)]_vars

\* C26 witness: the pose estimator reset twice in a row, while the two other
\* components hold a sample each
C26_Witness ==
    /\ ret.op = "poseReset"
    /\ ret.arg = "poseReset"
    /\ pose_start_time_ = sys_now
    /\ sys_now > 0
    /\ pose_history_ = <<>>
    /\ current_pose_ = UNKNOWN
    /\ previous_pose_ = UNKNOWN
    /\ position_history_ # <<>>
    /\ motion_history_ # <<>>

\* C27: DepthProcessor.reset() clears the position history, the last
\* position and the last distance, and leaves the depth grid, its width and
\* height, the initialized flag (hasDepthData), the principal point and the
\* bed-zone center and radius unchanged (the focal lengths are never
\* written after construction).
C27_ResetKeepsDepthFrame ==
    [][DepthResetStep =>
          /\ position_history_' = <<>>
          /\ last_position_' = ZeroPosition
          /\ last_distance_' = 0
          /\ UNCHANGED <<depth_map_, width_, height_, initialized_,
                         principal_x_, principal_y_, bed_center_,
                         bed_radius_>>
          /\ hasDepthData' = hasDepthData]_vars

\* C27 witness: a reset right after a detectFall call, with a depth frame
\* held and the bed zone moved from its default
C27_Witness ==
    /\ ret.op = "reset"
    /\ ret.arg = "detectFall"
    /\ hasDepthData
    /\ bed_radius_ # DEFAULT_BED_RADIUS
    /\ position_history_ = <<>>


\* a step that is a detectMotionWithDepth call up to its test of
\* "hasDepthData() && !detections.empty()"
TickBeginStep ==
    now' = now /\ sys_now' = sys_now /\ ret'.op = "detectMotionWithDepth"

\* C28: a detectMotionWithDepth tick on which the depth processor holds no
\* depth data, or whose detection list is empty, returns without running
\* the depth path: its result reports depth_fall false, in_bed_zone false,
\* and vertical_drop, fall_confidence, distance, depth_motion_level,
\* bed_proximity and the 3D position all 0, and the position history, the
\* last position and the last distance of the depth processor are what
\* they were before the tick.
C28_NoDepthTickIsZero ==
    [][TickBeginStep /\ (~hasDepthData' \/ ret'.arg = <<>>) =>
          /\ tick'.stage = "idle"
          /\ ~tick'.result.depth_fall
          /\ ~tick'.result.in_bed_zone
          /\ tick'.result.vertical_drop_meters = 0
          /\ tick'.result.fall_confidence = 0
          /\ tick'.result.distance_meters = 0
          /\ tick'.result.depth_motion_level = 0
          /\ tick'.result.bed_proximity_meters = 0
          /\ tick'.result.position_3d = ZeroPosition
          /\ UNCHANGED <<position_history_, last_position_,
                         last_distance_>>]_vars

\* C28 witness: a tick with an empty detection list, after a tick that
\* measured a person: the result is all zero, the history is kept
C28_Witness ==
    /\ ret.op = "detectMotionWithDepth"
    /\ ret.arg = <<>>
    /\ tick.stage = "idle"
    /\ hasDepthData
    /\ position_history_ # <<>>
    /\ last_distance_ > 0
    /\ tick.result = ZeroDepthFields


\* C29 as stated: time-derived outputs are robust to a clock that steps
\* backwards or repeats: stillness_duration >= 0 and getSecondsSinceMotion()
\* >= 0 in every reachable state, drop_velocity is 0 when the window's time
\* delta is <= 0, and the position history never exceeds 30 entries.
C29_ClockRobust ==
    /\ (ret.op = "analyze" => ret.value.stillness_duration >= 0)
    /\ (ret.op = "getSecondsSinceMotion" => ret.value >= 0)
    /\ (ret.op = "detectFall" /\ ret.pushed
          /\ position_history_[Len(position_history_)].timestamp_ms
               <= position_history_[1].timestamp_ms
          => ret.value.drop_velocity_ms.num = 0)
    /\ Len(position_history_) <= MAX_HISTORY_SIZE


\* the first label, in the order Unknown, Lying, Sitting, Standing, Fallen,
\* among the most frequent labels; count[L] is the number of recent
\* entries labelled L
FirstMajority(count) ==
    CHOOSE L \in 0..4 :
       /\ \A K \in 0..4 : count[K] <= count[L]
       /\ \A K \in 0..4 : K < L => count[K] < count[L]

\* C30: when two or more labels share the highest count among the most
\* recent 10 pose entries, the candidate label is the one that comes first
\* in the order Unknown, Lying, Sitting, Standing, Fallen: the tick leaves
\* that label's average confidence in the pose confidence, and that label
\* as current pose when it passes the promotion test.
C30_TieGoesToFirstLabel ==
    [][(UpdateStep /\ ret'.pushed) =>
          \E M \in {FirstMajority([L \in 0..4 |->
                                      LabelCount(pose_history_', L)])} :
          /\ pose_confidence_'
               = FloatDiv(ConfidenceOf(LastN(pose_history_', 10), M),
                          LabelCount(pose_history_', M))
          /\ (Qualifies(pose_history_', M) => current_pose_' = M)]_vars

\* C30 witness: five Fallen ticks made the pose Fallen, then the fifth
\* Standing tick makes a 5-5 split and the pose Standing
C30_Witness ==
    /\ ret.op = "update"
    /\ LabelCount(pose_history_, 3) = 5
    /\ LabelCount(pose_history_, 4) = 5
    /\ pose_history_[Len(pose_history_)].pose = 3
    /\ current_pose_ = 3
    /\ previous_pose_ = 4
    /\ pose_confidence_ = 800


\* C31: in every PoseEstimator state the current and the previous pose are
\* equal only when both are Unknown (no change since the last reset); a
\* tick that changes the current pose leaves the pose that was current in
\* the previous pose; the last-change timestamp and the pose-start
\* timestamp are equal, and change only on a change of the current pose
\* and on reset, to the time of that call.
C31_PreviousPoseAndChangeTime ==
    [][/\ (current_pose_' = previous_pose_' => current_pose_' = UNKNOWN)
       /\ pose_start_time_' = last_pose_change_time_'
       /\ (UpdateStep /\ current_pose_' # current_pose_ =>
             /\ previous_pose_' = current_pose_
             /\ previous_pose_' # current_pose_'
             /\ last_pose_change_time_' = sys_now)
       /\ (UpdateStep /\ current_pose_' = current_pose_ =>
             /\ previous_pose_' = previous_pose_
             /\ last_pose_change_time_' = last_pose_change_time_)
       /\ (PoseResetStep =>
             /\ current_pose_' = UNKNOWN
             /\ previous_pose_' = UNKNOWN
             /\ last_pose_change_time_' = sys_now)
       /\ (last_pose_change_time_' # last_pose_change_time_ =>
             \/ UpdateStep /\ current_pose_' # current_pose_
             \/ PoseResetStep)]_vars

\* C31 witness: the second change of pose since the reset, from Standing
\* to Fallen, 2000 ms after the reset
C31_Witness ==
    /\ ret.op = "update"
    /\ current_pose_ = FALLEN
    /\ previous_pose_ = STANDING
    /\ last_pose_change_time_ = 2000
    /\ pose_start_time_ = 2000


\* a step that is a call of one of the queries about the last change
HasPoseChangedStep == sys_now' = sys_now /\ ret'.op = "hasPoseChanged"
GetTimeInCurrentPoseStep ==
    sys_now' = sys_now /\ ret'.op = "getTimeInCurrentPose"

\* no change of pose has happened since the last reset or the construction
NoPoseChangeYet == current_pose_ = UNKNOWN /\ previous_pose_ = UNKNOWN

\* C39: reset() (and construction, which calls it) sets the last-change
\* and the pose-start timestamp to the current time; while no label change
\* has happened since, hasPoseChanged(w) with w >= 1 returns true during
\* the w seconds that follow the reset, and getTimeInCurrentPose() returns
\* the whole seconds elapsed since the reset.
C39_ResetCountsAsChange ==
    [][/\ (PoseResetStep =>
             /\ last_pose_change_time_' = sys_now
             /\ pose_start_time_' = sys_now)
       /\ (HasPoseChangedStep /\ NoPoseChangeYet /\ ret'.arg >= 1
             /\ sys_now - last_pose_change_time_ < 1000 * ret'.arg =>
             ret'.value = TRUE)
       /\ (GetTimeInCurrentPoseStep /\ NoPoseChangeYet =>
             ret'.value
               = (sys_now - last_pose_change_time_) \div 1000)]_vars

\* C39 witness: hasPoseChanged(2) returns true 1000 ms after a reset made
\* at 1000 ms, the pose being Unknown since
C39_Witness ==
    /\ ret.op = "hasPoseChanged"
    /\ ret.arg = 2
    /\ ret.value = TRUE
    /\ NoPoseChangeYet
    /\ pose_history_ # <<>>
    /\ last_pose_change_time_ = 1000
    /\ sys_now = 2000


\* C32: a detectFall call that leaves fewer than 2 entries in the position
\* window reports fall_detected false, vertical_drop 0, drop_velocity 0 and
\* confidence 0; the first valid sample after reset() and the first valid
\* sample that comes more than 1000 ms after the one before leave exactly
\* 1 entry, whatever the change in y.
C32_SingleSampleIsNoFall ==
    [][DetectFallStep /\ ret'.pushed =>
          /\ (\/ position_history_ = <<>>
              \/ now - position_history_[Len(position_history_)].timestamp_ms
                   > 1000)
             => Len(position_history_') = 1
          /\ Len(position_history_') < 2 =>
                /\ ~ret'.value.fall_detected
                /\ ret'.value.vertical_drop_meters = 0
                /\ ret'.value.drop_velocity_ms.num = 0
                /\ ret'.value.confidence = 0]_vars

\* C32 witness: a valid sample more than 1000 ms after the one before, more
\* than 0.5 m below it, alone in the window
C32_Witness ==
    /\ ret.op = "detectFall"
    /\ ret.pushed
    /\ Len(position_history_) = 1
    /\ fed.n = 2
    /\ fed.evicted
    /\ now - fed.first_ts > 1000
    /\ ret.pos.y - fed.first_y > 500
    /\ ~ret.value.fall_detected
    /\ ret.value.confidence = 0


\* C33 as stated: when the position estimated for a tick is the unmeasured
\* sentinel (z = 0), analyzeMotion reports bed_proximity_meters 0 and
\* in_bed_zone false, for every bed zone set through setBedRegion.
C33_SentinelSkipsBedZone ==
    (ret.op = "analyzeMotion" /\ ret.pos.z = 0) =>
        /\ ret.value.bed_proximity_meters = 0
        /\ ~ret.value.in_bed_zone


\* C37: the depth fall flag is not latched.  After a detectFall call that
\* pushed a sample, the window holds at most 30 samples, none pushed more
\* than 1000 ms before the newest; fall_detected true implies that the
\* window holds a sample whose y is more than 0.5 m smaller than the newest
\* sample's y; and when every sample of the window has the newest sample's
\* y (constant y for longer than 1000 ms, or for 30 samples) the call
\* returns fall_detected false with vertical_drop 0.
C37_FallFlagNotLatched ==
    (ret.op = "detectFall" /\ ret.pushed) =>
       LET h == position_history_
           newest == h[Len(h)]
       IN /\ Len(h) <= MAX_HISTORY_SIZE
          /\ \A i \in 1..Len(h) :
                newest.timestamp_ms - h[i].timestamp_ms <= 1000
          /\ ret.value.fall_detected =>
                \E i \in 1..Len(h) :
                   h[i].position.y + 500 < newest.position.y
          /\ (\A i \in 1..Len(h) : h[i].position.y = newest.position.y) =>
                /\ ~ret.value.fall_detected
                /\ ret.value.vertical_drop_meters = 0

\* C37 witness: after a drop of more than 0.5 m, two samples of constant y
\* more than 1000 ms later: the sample before the drop has left the window
\* and no fall is reported
C37_Witness ==
    /\ ret.op = "detectFall"
    /\ ret.pushed
    /\ Len(position_history_) = 2
    /\ position_history_[1].position.y = position_history_[2].position.y
    /\ fed.evicted
    /\ ret.pos.y - fed.first_y > 500
    /\ position_history_[1].timestamp_ms - fed.first_ts > 1000
    /\ ~ret.value.fall_detected
    /\ ret.value.vertical_drop_meters = 0


(***************************************************************************)
(* SpecTwoDepths: the bridge called with depth frames that put the person  *)
(* at two different distances, so that consecutive ticks measure a depth   *)
(* change.                                                                 *)
(***************************************************************************)
\* a frame of the size of FrameFar with the scene at 9.7 m
FrameNearer == UniformFrame(2, 32, 9700)
TwoDepths == {FrameFar, FrameNearer}
TwoDepthBitmaps == {FlatFrame(4, 4, 0)}
MaxDepthTicks == 3

NextTwoDepths ==
    \/ \E depth \in TwoDepths, bitmap \in TwoDepthBitmaps,
          detections \in TickDetections :
          /\ Len(motion_history_) < MaxDepthTicks
          /\ TickBegin(depth, bitmap, detections)
    \/ TickDetectFall
    \/ TickAnalyzeMotion

SpecTwoDepths == Init /\ [][NextTwoDepths]_vars

\* a step that is the analyzeMotion call of a detectMotionWithDepth tick,
\* which follows the tick's detectFall call
TickAnalyzeMotionStep ==
    /\ tick.stage = "analyzeMotion"
    /\ tick'.stage = "idle"
    /\ ret.op = "detectFall"
    /\ ret'.op = "analyzeMotion"

\* C35: in a detectMotionWithDepth tick, whenever detectFall obtained a
\* valid position the depth_motion_level that analyzeMotion returns, and
\* that the tick reports, is 0, whatever the ticks before measured:
\* detectFall has stored the tick's position as last position.
C35_TickDepthMotionIsZero ==
    [][TickAnalyzeMotionStep /\ ret.pos.z > 0 =>
          /\ last_position_ = ret.pos
          /\ ret'.value.depth_motion_level = 0
          /\ tick'.result.depth_motion_level = 0]_vars

\* C35 witness: two ticks that measured the person at different valid
\* positions, the second one reporting depth_motion_level 0
C35_Witness ==
    /\ tick.stage = "idle"
    /\ ret.op = "analyzeMotion"
    /\ Len(position_history_) = 2
    /\ position_history_[1].position.z > 0
    /\ position_history_[2].position.z > 0
    /\ position_history_[1].position.z # position_history_[2].position.z
    /\ ret.pos = position_history_[2].position
    /\ tick.result.distance_meters = ret.pos.z
    /\ tick.result.depth_motion_level = 0


\* the last k entries of pose history h exist and all carry label L
EndsWithRun(h, k, L) ==
    /\ Len(h) >= k
    /\ \A i \in (Len(h) - k + 1)..Len(h) : h[i].pose = L

\* C36: when the last 6 entries of the pose history carry the same label L,
\* L is the current pose; when the last 5 do, L is the current pose exactly
\* when no label that comes before L in the order Unknown, Lying, Sitting,
\* Standing, Fallen occurs 5 times among the last 10 entries.
C36_SixTicksSettleThePose ==
    \A L \in 0..4 :
       /\ EndsWithRun(pose_history_, 6, L) => current_pose_ = L
       /\ EndsWithRun(pose_history_, 5, L) =>
             (current_pose_ = L
                <=> ~ \E K \in 0..4 :
                         K < L /\ LabelCount(pose_history_, K) = 5)

\* C36 witness: five Standing ticks, then six Fallen ticks: the fifth
\* Fallen tick made a 5-5 split, the sixth leaves Fallen as current pose
C36_Witness ==
    /\ ret.op = "update"
    /\ Len(pose_history_) = 11
    /\ \A i \in 1..5 : pose_history_[i].pose = STANDING
    /\ EndsWithRun(pose_history_, 6, FALLEN)
    /\ LabelCount(pose_history_, STANDING) = 4
    /\ current_pose_ = FALLEN
    /\ previous_pose_ = STANDING


\* C38: the pose confidence starts in [0,1] and every call keeps it there;
\* a tick with a person leaves in it the average confidence of the
\* majority label of the last min(10, n) entries (the first such label in
\* enum order), whether or not that label is the current pose after the
\* tick; a tick without a person never raises it.
C38_ConfidenceOfMajorityLabel ==
    /\ pose_confidence_ \in 0..1000
    /\ [][/\ pose_confidence_' \in 0..1000
          /\ (UpdateStep /\ ret'.pushed) =>
                \E M \in {FirstMajority([L \in 0..4 |->
                                            LabelCount(pose_history_', L)])} :
                   pose_confidence_'
                      = FloatDiv(ConfidenceOf(LastN(pose_history_', 10), M),
                                 LabelCount(pose_history_', M))
          /\ (UpdateStep /\ ~ret'.pushed) =>
                pose_confidence_' <= pose_confidence_]_vars

\* C38 witness: three weak Fallen entries are the majority of the history,
\* the confidence is their average 0.6, and the current pose is still
\* Unknown
C38_Witness ==
    /\ ret.op = "update"
    /\ ret.pushed
    /\ LabelCount(pose_history_, FALLEN) = 3
    /\ LabelCount(pose_history_, STANDING) = 2
    /\ current_pose_ = UNKNOWN
    /\ pose_confidence_ = 600


(***************************************************************************)
(* SpecRace: detectMotionWithDepth on one thread and cleanup on another,   *)
(* with nothing but the scheduler to order them.                           *)
(***************************************************************************)
RaceDepths == {NoDepthFrame, FrameFar}
RaceBitmaps == {FlatFrame(4, 4, 0), FlatFrame(4, 4, 255)}
RaceDetections == {<<>>, <<DetPersonWide>>, <<DetChair, DetPersonWide>>}
MaxRaceTicks == 2

NextRace ==
    \/ \E depth \in RaceDepths, bitmap \in RaceBitmaps,
          detections \in RaceDetections :
          /\ Len(motion_history_) < MaxRaceTicks
          /\ TickBegin(depth, bitmap, detections)
    \/ TickDetectFall
    \/ TickAnalyzeMotion
    \/ Cleanup

SpecRace == Init /\ [][NextRace]_vars

\* C34: nothing in the bridge or in the classes orders cleanup and a tick:
\* while the process runs, cleanup can run in every state, the states in
\* which a tick has passed its checks of the global instances and has yet
\* to call them included; and a tick faults only on an instance that
\* cleanup destroyed under it.
C34_CleanupNotExcluded ==
    /\ tick.stage # "fault" => ENABLED Cleanup
    /\ tick.stage = "fault" => ~g_instances.g_depth_processor

\* C34 witness: cleanup ran between the tick's checks and its detectFall or
\* analyzeMotion call, and the call on the destroyed depth processor
\* faulted
C34_Witness ==
    /\ tick.stage = "fault"
    /\ ret.op = "fault"
    /\ ret.arg = "cleanup"
    /\ ~g_instances.g_depth_processor
    /\ tick.detections # <<>>

=============================================================================
